---------------------------- MODULE Spec2Model ----------------------------
(***************************************************************************)
(* A model of the patcher: the rolling hash (rolling_hash.rs), the block   *)
(* differ and its applier (binary_diff.rs, binary_patch.rs), the patch     *)
(* builder (create.rs) and the parallel patch applier (apply.rs).          *)
(*                                                                         *)
(* Bytes are integers 0..255, byte strings and paths are sequences of      *)
(* bytes (a path is the sequence of its ASCII codes, so that the order of  *)
(* String::cmp is the lexicographic order of the sequences).  Offsets are  *)
(* 0-based as in the source; Slice converts to the 1-based sequences.      *)
(***************************************************************************)
EXTENDS Integers, Sequences, FiniteSets, TLC

(***************************************************************************)
(* Bounds of the model.  BLOCK_SIZE is binary_diff.rs's 4096 scaled down   *)
(* so that buffers of a few bytes span several blocks.                     *)
(***************************************************************************)
BLOCK_SIZE == 2
MaxLen == 4
MaxRun == 260
MaxTail == 2
MaxDirs == 3
\* The largest capacity the allocator grants to one Vec.
MaxAlloc == 8

(* Program constants. *)
MOD_ADLER == 65521
FORMAT_VERSION == 1
\* BLOCK_SIZE of the source; the rolling hash is also run on a window of it.
FULL_BLOCK_SIZE == 4096
MAGIC == <<80, 65, 84, 67, 72, 86, 48, 49>>

(***************************************************************************)
(* Byte strings.                                                           *)
(***************************************************************************)
Min(x, y) == IF x <= y THEN x ELSE y

\* &s[start..end] of a slice s, 0-based, end exclusive.
Slice(s, start, end) == SubSeq(s, start + 1, end)

Rep(x, n) == [i \in 1..n |-> x]

RECURSIVE SeqsUpTo(_, _)
SeqsUpTo(S, n) ==
    IF n = 0 THEN {<<>>}
    ELSE LET shorter == SeqsUpTo(S, n - 1)
         IN  shorter \cup {Append(s, x) : s \in {t \in shorter : Len(t) = n - 1}, x \in S}

(***************************************************************************)
(* BLAKE3.  The strong hash is modelled as collision free: the digest of a *)
(* byte string determines the byte string.                                 *)
(***************************************************************************)
hash_bytes(data) == [blake3 |-> data]

(***************************************************************************)
(* rolling_hash.rs                                                         *)
(***************************************************************************)
RollingHash_new == [a |-> 1, b |-> 0, window_size |-> 0]

\* The loop of init, a += byte; b += a, run over data[lo..hi] adds
\* <<s, n * a + t>> to the 64-bit accumulators <<a, b>>, where n is the number
\* of bytes, s their sum and t the sum of (n - j + 1) * (the j-th byte).
\* LoopEffect is <<s, t>>; the range is halved to keep the evaluation shallow.
RECURSIVE LoopEffect(_, _, _)
LoopEffect(data, lo, hi) ==
    IF lo > hi THEN <<0, 0>>
    ELSE IF lo = hi THEN <<data[lo], data[lo]>>
    ELSE LET mid == (lo + hi) \div 2
             left == LoopEffect(data, lo, mid)
             right == LoopEffect(data, mid + 1, hi)
         IN  <<left[1] + right[1], left[2] + (hi - mid) * left[1] + right[2]>>

InitAccumulate(data, a, b) ==
    LET eff == LoopEffect(data, 1, Len(data))
    IN  <<a + eff[1], b + Len(data) * a + eff[2]>>

init_NoReduction(self, data) ==
    LET acc == InitAccumulate(data, 1, 0)
    IN  [a |-> acc[1], b |-> acc[2], window_size |-> Len(data)]

init(self, data) ==
    LET acc == InitAccumulate(data, 1, 0)
    IN  [a |-> acc[1] % MOD_ADLER, b |-> acc[2] % MOD_ADLER,
         window_size |-> Len(data)]

rotate_NoWindow(self, old_byte, new_byte) ==
    LET a2 == (self.a + MOD_ADLER - old_byte + new_byte) % MOD_ADLER
    IN  [a |-> a2,
         b |-> (self.b + MOD_ADLER - 1 + a2 - (old_byte % MOD_ADLER)) % MOD_ADLER,
         window_size |-> self.window_size]

rotate_KeepsOldByte(self, old_byte, new_byte) ==
    LET a2 == (self.a + new_byte) % MOD_ADLER
    IN  [a |-> a2,
         b |-> (self.b + MOD_ADLER - 1 + a2
                  - ((old_byte * self.window_size) % MOD_ADLER)) % MOD_ADLER,
         window_size |-> self.window_size]

rotate(self, old_byte, new_byte) ==
    LET a2 == (self.a + MOD_ADLER - old_byte + new_byte) % MOD_ADLER
    IN  [a |-> a2,
         b |-> (self.b + MOD_ADLER - 1 + a2
                  - ((old_byte * self.window_size) % MOD_ADLER)) % MOD_ADLER,
         window_size |-> self.window_size]

\* The values of rotate's unsigned 32-bit expressions in the order they are
\* evaluated, before any reduction to 32 bits: self.a + MOD_ADLER, - old,
\* + new; self.b + MOD_ADLER, - 1, + self.a, old * self.window_size, and the
\* last subtraction.
rotate_intermediates(self, old_byte, new_byte) ==
    LET a_plus == self.a + MOD_ADLER
        a_minus == a_plus - old_byte
        a_sum == a_minus + new_byte
        b_plus == self.b + MOD_ADLER
        b_minus == b_plus - 1
        b_sum == b_minus + (a_sum % MOD_ADLER)
        product == old_byte * self.window_size
        b_diff == b_sum - (product % MOD_ADLER)
    IN  <<a_plus, a_minus, a_sum, b_plus, b_minus, b_sum, product, b_diff>>

\* x | y on 16-bit values.
RECURSIVE BitOr(_, _, _)
BitOr(x, y, bits) ==
    IF bits = 0 THEN 0
    ELSE (IF x % 2 = 1 \/ y % 2 = 1 THEN 1 ELSE 0)
           + 2 * BitOr(x \div 2, y \div 2, bits - 1)

\* (b << 16) | a in 32 bits, kept as its two 16-bit halves: the shift drops
\* the bits of b above the 16th, the low half is that of a, and the bits of
\* a above the 16th are or-ed into the high half.
digest(self) ==
    LET pack[s \in {self}] ==
            [lo |-> s.a % 65536, hi |-> BitOr(s.b % 65536, s.a \div 65536, 16)]
    IN  pack[self]

(***************************************************************************)
(* patch_format.rs: DiffChunk                                              *)
(***************************************************************************)
Copy(offset, length) == [offset |-> offset, length |-> length, type |-> "Copy"]
Insert(data) == [data |-> data, type |-> "Insert"]

(***************************************************************************)
(* binary_patch.rs                                                         *)
(***************************************************************************)
\* The loop of apply_diff: slicing old out of range panics.
RECURSIVE ApplyChunks(_, _, _, _)
ApplyChunks(old, chunks, i, result) ==
    IF i > Len(chunks) THEN [data |-> result, panicked |-> FALSE, aborted |-> FALSE]
    ELSE LET chunk == chunks[i]
         IN  IF chunk.type = "Copy"
             THEN LET start == chunk.offset
                      end == start + chunk.length
                  IN  IF end > Len(old) \/ start > end
                      THEN [data |-> <<>>, panicked |-> TRUE, aborted |-> FALSE]
                      ELSE ApplyChunks(old, chunks, i + 1,
                                       result \o Slice(old, start, end))
             ELSE ApplyChunks(old, chunks, i + 1, result \o chunk.data)

\* apply_diff: the result is allocated with the capacity estimated_size, the
\* sum of the lengths of the Copy chunks and of the Insert data, before any
\* chunk is replayed. Vec::with_capacity of a capacity the allocator does not
\* grant ends in handle_alloc_error, which aborts the process: no unwinding,
\* nothing returned.
apply_diff(old, chunks) ==
    LET RECURSIVE sum(_)
        sum(i) ==
            IF i > Len(chunks) THEN 0
            ELSE (IF chunks[i].type = "Copy" THEN chunks[i].length ELSE Len(chunks[i].data))
                   + sum(i + 1)
        estimated_size == sum(1)
    IN  IF estimated_size > MaxAlloc
        THEN [data |-> <<>>, panicked |-> FALSE, aborted |-> TRUE]
        ELSE ApplyChunks(old, chunks, 1, <<>>)

(***************************************************************************)
(* binary_diff.rs                                                          *)
(***************************************************************************)
build_signatures_SkipsFirstBlock(data) ==
    LET num_blocks == (Len(data) + BLOCK_SIZE - 1) \div BLOCK_SIZE
    IN  [k \in 1..(num_blocks - 1) |->
            LET start == k * BLOCK_SIZE
                end == Min(start + BLOCK_SIZE, Len(data))
                block == Slice(data, start, end)
            IN  [offset |-> start,
                 rolling_hash |-> digest(init(RollingHash_new, block)),
                 strong_hash |-> hash_bytes(block)]]

build_signatures_OffsetAtEnd(data) ==
    LET num_blocks == (Len(data) + BLOCK_SIZE - 1) \div BLOCK_SIZE
    IN  [k \in 1..num_blocks |->
            LET start == (k - 1) * BLOCK_SIZE
                end == Min(start + BLOCK_SIZE, Len(data))
                block == Slice(data, start, end)
            IN  [offset |-> end,
                 rolling_hash |-> digest(init(RollingHash_new, block)),
                 strong_hash |-> hash_bytes(block)]]

build_signatures(data) ==
    LET num_blocks == (Len(data) + BLOCK_SIZE - 1) \div BLOCK_SIZE
    IN  [k \in 1..num_blocks |->
            LET start == (k - 1) * BLOCK_SIZE
                end == Min(start + BLOCK_SIZE, Len(data))
                block == Slice(data, start, end)
            IN  [offset |-> start,
                 rolling_hash |-> digest(init(RollingHash_new, block)),
                 strong_hash |-> hash_bytes(block)]]

\* The multimap digest -> indices of the signatures with that digest, in
\* ascending order of index.
build_hash_table(signatures) ==
    [d \in {signatures[k].rolling_hash : k \in DOMAIN signatures} |->
        SelectSeq([k \in DOMAIN signatures |-> k],
                  LAMBDA k : signatures[k].rolling_hash = d)]

NoMatch == [offset |-> 0, length |-> 0, found |-> FALSE]

\* The candidate loop of find_match, from candidate number c on.
RECURSIVE FirstStrongMatch(_, _, _, _, _)
FirstStrongMatch(candidates, c, new_strong, old, signatures) ==
    IF c > Len(candidates) THEN NoMatch
    ELSE LET sig == signatures[candidates[c]]
         IN  IF sig.strong_hash = new_strong
             THEN LET block_end == Min(sig.offset + BLOCK_SIZE, Len(old))
                  IN  [offset |-> sig.offset, length |-> block_end - sig.offset,
                       found |-> TRUE]
             ELSE FirstStrongMatch(candidates, c + 1, new_strong, old, signatures)

find_match(rolling_digest, new_block, old, hash_table, signatures) ==
    IF rolling_digest \notin DOMAIN hash_table THEN NoMatch
    ELSE FirstStrongMatch(hash_table[rolling_digest], 1, hash_bytes(new_block),
                          old, signatures)

\* The state of match_blocks's loop.
MatchStart(new) ==
    [chunks |-> <<>>,
     pos |-> 0,
     rolling |-> init(RollingHash_new, Slice(new, 0, BLOCK_SIZE)),
     insert_buf |-> <<>>]

WindowFits(new, m) == m.pos + BLOCK_SIZE <= Len(new)

\* One iteration of the loop of match_blocks, when the window fits.
MatchStep(old, new, hash_table, signatures, m) ==
    LET window_end == m.pos + BLOCK_SIZE
        match_result == find_match(digest(m.rolling), Slice(new, m.pos, window_end),
                                   old, hash_table, signatures)
    IN  IF match_result.found
        THEN LET flushed == IF m.insert_buf # <<>>
                            THEN Append(m.chunks, Insert(m.insert_buf))
                            ELSE m.chunks
                 pos2 == m.pos + match_result.length
             IN  [chunks |-> Append(flushed,
                                    Copy(match_result.offset, match_result.length)),
                  pos |-> pos2,
                  rolling |-> IF pos2 + BLOCK_SIZE <= Len(new)
                              THEN init(RollingHash_new, Slice(new, pos2, pos2 + BLOCK_SIZE))
                              ELSE m.rolling,
                  insert_buf |-> <<>>]
        ELSE LET pos2 == m.pos + 1
             IN  [chunks |-> m.chunks,
                  pos |-> pos2,
                  rolling |-> IF pos2 + BLOCK_SIZE <= Len(new)
                              THEN rotate(m.rolling, new[pos2], new[pos2 + BLOCK_SIZE])
                              ELSE m.rolling,
                  insert_buf |-> Append(m.insert_buf, new[m.pos + 1])]

MatchFinish_DropsTail(new, m) ==
    IF m.insert_buf # <<>> THEN Append(m.chunks, Insert(m.insert_buf)) ELSE m.chunks

\* What match_blocks returns once the loop has ended in state m.
MatchFinish(new, m) ==
    LET buf == IF m.pos < Len(new)
               THEN m.insert_buf \o Slice(new, m.pos, Len(new))
               ELSE m.insert_buf
    IN  IF buf # <<>> THEN Append(m.chunks, Insert(buf)) ELSE m.chunks

RECURSIVE MatchLoop(_, _, _, _, _)
MatchLoop(old, new, hash_table, signatures, m) ==
    IF ~WindowFits(new, m) THEN m
    ELSE MatchLoop(old, new, hash_table, signatures,
                   MatchStep(old, new, hash_table, signatures, m))

match_blocks(old, new, hash_table, signatures) ==
    IF Len(new) < BLOCK_SIZE THEN <<Insert(new)>>
    ELSE MatchFinish(new, MatchLoop(old, new, hash_table, signatures, MatchStart(new)))

compute_diff(old, new) ==
    IF old = <<>>
    THEN IF new = <<>> THEN <<>> ELSE <<Insert(new)>>
    ELSE LET signatures == build_signatures(old)
             hash_table == build_hash_table(signatures)
         IN  match_blocks(old, new, hash_table, signatures)


(***************************************************************************)
(* Paths.  A path of a manifest is a string, here the sequence of its      *)
(* ASCII codes.  A location of the filesystem is an absolute path in       *)
(* normal form: the sequence of its components from the root.              *)
(***************************************************************************)
Ch == [x |-> 120, t |-> 116, a |-> 97, b |-> 98, slash |-> 47, dot |-> 46,
       g |-> 103, z |-> 122]

\* String::cmp: the lexicographic order of the byte sequences.
RECURSIVE StrLess(_, _)
StrLess(p, q) ==
    IF q = <<>> THEN FALSE
    ELSE IF p = <<>> THEN TRUE
    ELSE IF p[1] # q[1] THEN p[1] < q[1]
    ELSE StrLess(Tail(p), Tail(q))

\* The elements of a finite set of strings in ascending order.
RECURSIVE SortAscending(_)
SortAscending(S) ==
    IF S = {} THEN <<>>
    ELSE LET least == CHOOSE p \in S : \A q \in S \ {p} : StrLess(p, q)
         IN  <<least>> \o SortAscending(S \ {least})

Reverse(s) == [k \in 1..Len(s) |-> s[Len(s) + 1 - k]]

\* The components of a path string, split at '/', empty ones included.
RECURSIVE SplitFrom(_, _, _)
SplitFrom(p, k, cur) ==
    IF k > Len(p) THEN <<cur>>
    ELSE IF p[k] = Ch.slash THEN <<cur>> \o SplitFrom(p, k + 1, <<>>)
    ELSE SplitFrom(p, k + 1, Append(cur, p[k]))

Split(p) == SplitFrom(p, 1, <<>>)

IsAbsolute(p) == p # <<>> /\ p[1] = Ch.slash

DotDot == <<Ch.dot, Ch.dot>>
Dot == <<Ch.dot>>

\* The location a path names from the directory at location base, as the
\* operating system resolves it: an absolute path starts from the root, empty
\* and "." components are skipped and ".." steps to the parent.
RECURSIVE Walk(_, _, _)
Walk(loc, comps, k) ==
    IF k > Len(comps) THEN loc
    ELSE LET c == comps[k]
         IN  IF c = <<>> \/ c = Dot THEN Walk(loc, comps, k + 1)
             ELSE IF c = DotDot
                  THEN Walk(IF loc = <<>> THEN loc ELSE SubSeq(loc, 1, Len(loc) - 1),
                            comps, k + 1)
             ELSE Walk(Append(loc, c), comps, k + 1)

\* base.join(path), resolved.
Join(base, p) == Walk(IF IsAbsolute(p) THEN <<>> ELSE base, Split(p), 1)

\* The wire convention of the spec (6): no leading slash, no "." or ".."
\* segment, no empty component.
WellFormedPath(p) ==
    /\ p # <<>>
    /\ ~IsAbsolute(p)
    /\ \A k \in DOMAIN Split(p) : Split(p)[k] \notin {<<>>, Dot, DotDot}

\* Path::parent of a path string: the path without its last component, or
\* None for the empty path and for the root.
RECURSIVE StripSlashes(_)
StripSlashes(p) ==
    IF p # <<>> /\ p[Len(p)] = Ch.slash THEN StripSlashes(SubSeq(p, 1, Len(p) - 1)) ELSE p

RECURSIVE StripLastComponent(_)
StripLastComponent(p) ==
    IF p # <<>> /\ p[Len(p)] # Ch.slash THEN StripLastComponent(SubSeq(p, 1, Len(p) - 1))
    ELSE p

PathParent(p) ==
    LET trimmed == StripSlashes(p)
        front == StripLastComponent(trimmed)
    IN  IF trimmed = <<>> THEN [some |-> FALSE, path |-> <<>>]
        ELSE IF front # <<>> /\ StripSlashes(front) = <<>>
             THEN [some |-> TRUE, path |-> <<Ch.slash>>]
        ELSE [some |-> TRUE, path |-> StripSlashes(front)]

\* Path::extension of the file name, lowercased: the part after the last dot
\* of the last component, None when the name has no dot or starts with its
\* only dot.
ToAsciiLowercase(c) == IF 65 <= c /\ c <= 90 THEN c + 32 ELSE c

FileName(p) == LET comps == Split(StripSlashes(p)) IN comps[Len(comps)]

RECURSIVE LastDot(_, _)
LastDot(name, k) ==
    IF k = 0 THEN 0 ELSE IF name[k] = Ch.dot THEN k ELSE LastDot(name, k - 1)

Extension(p) ==
    LET name == FileName(p)
        d == LastDot(name, Len(name))
    IN  IF name = DotDot \/ d <= 1 THEN [some |-> FALSE, ext |-> <<>>]
        ELSE [some |-> TRUE,
              ext |-> [k \in 1..(Len(name) - d) |-> ToAsciiLowercase(name[d + k])]]

(***************************************************************************)
(* The filesystem: what is at each location.                               *)
(***************************************************************************)
Absent == [data |-> <<>>, kind |-> "Absent"]
Dir == [data |-> <<>>, kind |-> "Dir"]
File(data) == [data |-> data, kind |-> "File"]

IsPrefix(s, t) == Len(s) <= Len(t) /\ SubSeq(t, 1, Len(s)) = s
IsProperPrefix(s, t) == Len(s) < Len(t) /\ SubSeq(t, 1, Len(s)) = s

\* The non-root locations on the way to loc, loc included.
Prefixes(loc) == {SubSeq(loc, 1, k) : k \in 1..Len(loc)}

KindAt(f, loc) == IF loc = <<>> THEN "Dir" ELSE f[loc].kind

IoOk(f) == [ok |-> TRUE, error |-> "", fs |-> f]
IoErr(f, e) == [ok |-> FALSE, error |-> e, fs |-> f]

\* std::fs::create_dir_all: creates the missing directories on the way; a
\* file on the way is an error and nothing is created above it.
create_dir_all(f, loc) ==
    IF \E q \in Prefixes(loc) : f[q].kind = "File"
    THEN IoErr(f, "NotADirectory")
    ELSE IoOk([l \in DOMAIN f |-> IF l \in Prefixes(loc) THEN Dir ELSE f[l]])

\* std::fs::write: creates or truncates the file; the parent must be a
\* directory and the location must not be one.
write(f, loc, data) ==
    IF loc = <<>> \/ KindAt(f, SubSeq(loc, 1, Len(loc) - 1)) # "Dir"
    THEN IoErr(f, "NotFound")
    ELSE IF f[loc].kind = "Dir" THEN IoErr(f, "IsADirectory")
    ELSE IoOk([f EXCEPT ![loc] = File(data)])

\* std::fs::remove_dir_all: removes the directory with all below it.
remove_dir_all(f, loc) ==
    IF KindAt(f, loc) = "Absent" THEN IoErr(f, "NotFound")
    ELSE IF KindAt(f, loc) = "File" \/ loc = <<>> THEN IoErr(f, "NotADirectory")
    ELSE IoOk([l \in DOMAIN f |-> IF IsPrefix(loc, l) THEN Absent ELSE f[l]])

\* std::fs::remove_file.
remove_file(f, loc) ==
    IF KindAt(f, loc) = "Absent" THEN IoErr(f, "NotFound")
    ELSE IF KindAt(f, loc) = "Dir" THEN IoErr(f, "IsADirectory")
    ELSE IoOk([f EXCEPT ![loc] = Absent])

\* util::mmap_file: the bytes of the file, or an error when there is no file.
mmap_file(f, loc) ==
    IF KindAt(f, loc) = "File" THEN [data |-> f[loc].data, ok |-> TRUE]
    ELSE [data |-> <<>>, ok |-> FALSE]

(***************************************************************************)
(* patch_format.rs: PatchOp, PatchManifest, ApplySummary                   *)
(***************************************************************************)
CreateDir(path) == [type |-> "CreateDir", path |-> path]
AddFile(path, data, blake3_hash) ==
    [data |-> data, type |-> "AddFile", path |-> path, blake3_hash |-> blake3_hash]
ModifyFile(path, diff_chunks, new_blake3_hash) ==
    [type |-> "ModifyFile", path |-> path, diff_chunks |-> diff_chunks,
     new_blake3_hash |-> new_blake3_hash]
DeleteFile(path) == [type |-> "DeleteFile", path |-> path]
DeleteDir(path) == [type |-> "DeleteDir", path |-> path]

PatchManifest(version, operations) == [version |-> version, operations |-> operations]

ApplySummary(dirs_created, files_added, files_modified, files_deleted, dirs_deleted) ==
    [dirs_created |-> dirs_created, files_added |-> files_added,
     files_modified |-> files_modified, files_deleted |-> files_deleted,
     dirs_deleted |-> dirs_deleted]

OfType(operations, type) == SelectSeq(operations, LAMBDA op : op.type = type)

MapSeq(F(_), s) == [k \in 1..Len(s) |-> F(s[k])]

(***************************************************************************)
(* util.rs                                                                 *)
(***************************************************************************)
\* The relative paths of the trees of the model: a, a/b, b.gz.
Universe ==
    {<<Ch.a>>, <<Ch.a, Ch.slash, Ch.b>>, <<Ch.b, Ch.dot, Ch.g, Ch.z>>}

\* A directory tree: what is at each relative path.  Whatever is present lies
\* in a directory.
IsTree(tree) ==
    \A p \in Universe :
        (tree[p].kind # "Absent" /\ PathParent(p).path \in Universe)
            => tree[PathParent(p).path].kind = "Dir"

\* walk_directory: an entry for everything below the root, with the size of
\* each file (0 for a directory).
walk_directory(tree) ==
    {[kind |-> tree[p].kind, relative_path |-> p,
      size |-> IF tree[p].kind = "File" THEN Len(tree[p].data) ELSE 0] :
        p \in {q \in Universe : tree[q].kind # "Absent"}}

path_set(entries) == {e.relative_path : e \in entries}

EntryOf(entries, path) == CHOOSE e \in entries : e.relative_path = path

sort_dirs_parent_first(dirs) == SortAscending({dirs[k] : k \in DOMAIN dirs})

sort_dirs_deepest_first_NoReverse(dirs) == SortAscending({dirs[k] : k \in DOMAIN dirs})

sort_dirs_deepest_first(dirs) == Reverse(SortAscending({dirs[k] : k \in DOMAIN dirs}))

(***************************************************************************)
(* create.rs                                                               *)
(***************************************************************************)
IncompressibleExtensions ==
    {<<106, 112, 103>>, <<106, 112, 101, 103>>, <<112, 110, 103>>,
     <<103, 105, 102>>, <<98, 109, 112>>, <<119, 101, 98, 112>>,
     <<105, 99, 111>>, <<116, 105, 102, 102>>, <<116, 105, 102>>,
     <<97, 118, 105, 102>>, <<109, 112, 52>>, <<109, 107, 118>>,
     <<97, 118, 105>>, <<109, 111, 118>>, <<119, 109, 118>>,
     <<102, 108, 118>>, <<119, 101, 98, 109>>, <<109, 52, 118>>,
     <<109, 112, 51>>, <<97, 97, 99>>, <<111, 103, 103>>,
     <<102, 108, 97, 99>>, <<111, 112, 117, 115>>, <<109, 52, 97>>,
     <<119, 109, 97>>, <<122, 105, 112>>, <<103, 122>>, <<98, 122, 50>>,
     <<120, 122>>, <<122, 115, 116>>, <<55, 122>>, <<114, 97, 114>>,
     <<100, 111, 99, 120>>, <<120, 108, 115, 120>>, <<112, 112, 116, 120>>,
     <<111, 100, 116>>, <<111, 100, 115>>, <<111, 100, 112>>,
     <<119, 111, 102, 102>>, <<119, 111, 102, 102, 50>>, <<112, 100, 102>>}

is_incompressible(path) ==
    Extension(path).some /\ Extension(path).ext \in IncompressibleExtensions

DiffOne_InvertedSizeTest(old_tree, new_tree, old_entries, new_entries, path) ==
    LET sizes_differ == EntryOf(old_entries, path).size # EntryOf(new_entries, path).size
        new_hash == hash_bytes(new_tree[path].data)
    IN  IF sizes_differ /\ hash_bytes(old_tree[path].data) = new_hash
        THEN [some |-> FALSE, op |-> DeleteFile(path)]
        ELSE [some |-> TRUE,
              op |-> ModifyFile(path, compute_diff(old_tree[path].data, new_tree[path].data),
                                new_hash)]

DiffOne_NoHashTest(old_tree, new_tree, old_entries, new_entries, path) ==
    [some |-> TRUE,
     op |-> ModifyFile(path, compute_diff(old_tree[path].data, new_tree[path].data),
                       hash_bytes(new_tree[path].data))]

\* Stage 3 for one maybe-modified path: None when the sizes and the hashes
\* agree, else the path with its chunks and the hash of the new file.
DiffOne(old_tree, new_tree, old_entries, new_entries, path) ==
    LET sizes_differ == EntryOf(old_entries, path).size # EntryOf(new_entries, path).size
        old_data == old_tree[path].data
        new_data == new_tree[path].data
        new_hash == hash_bytes(new_data)
    IN  IF ~sizes_differ /\ hash_bytes(old_data) = new_hash
        THEN [some |-> FALSE, op |-> DeleteFile(path)]
        ELSE [some |-> TRUE,
              op |-> ModifyFile(path,
                                IF is_incompressible(path)
                                THEN <<Insert(new_data)>>
                                ELSE compute_diff(old_data, new_data),
                                new_hash)]

Classify_NoDirsToCreate(old_tree, new_tree) ==
    LET old_entries == walk_directory(old_tree)
        new_entries == walk_directory(new_tree)
        old_paths == path_set(old_entries)
        new_paths == path_set(new_entries)
        added == SortAscending(new_paths \ old_paths)
        removed == SortAscending(old_paths \ new_paths)
        common == SortAscending(old_paths \cap new_paths)
    IN  [dirs_to_create |-> <<>>,
         files_to_add |->
            SelectSeq(added, LAMBDA p : EntryOf(new_entries, p).kind = "File"),
         dirs_to_delete |->
            SelectSeq(removed, LAMBDA p : EntryOf(old_entries, p).kind = "Dir"),
         files_to_delete |->
            SelectSeq(removed, LAMBDA p : EntryOf(old_entries, p).kind = "File"),
         files_maybe_modified |->
            SelectSeq(common, LAMBDA p : /\ EntryOf(old_entries, p).kind = "File"
                                         /\ EntryOf(new_entries, p).kind = "File")]

Classify_DeletesAllOld(old_tree, new_tree) ==
    LET old_entries == walk_directory(old_tree)
        new_entries == walk_directory(new_tree)
        old_paths == path_set(old_entries)
        new_paths == path_set(new_entries)
        added == SortAscending(new_paths \ old_paths)
        removed == SortAscending(old_paths)
        common == SortAscending(old_paths \cap new_paths)
    IN  [dirs_to_create |->
            SelectSeq(added, LAMBDA p : EntryOf(new_entries, p).kind = "Dir"),
         files_to_add |->
            SelectSeq(added, LAMBDA p : EntryOf(new_entries, p).kind = "File"),
         dirs_to_delete |->
            SelectSeq(removed, LAMBDA p : EntryOf(old_entries, p).kind = "Dir"),
         files_to_delete |->
            SelectSeq(removed, LAMBDA p : EntryOf(old_entries, p).kind = "File"),
         files_maybe_modified |->
            SelectSeq(common, LAMBDA p : /\ EntryOf(old_entries, p).kind = "File"
                                         /\ EntryOf(new_entries, p).kind = "File")]

Classify_IgnoresKind(old_tree, new_tree) ==
    LET old_entries == walk_directory(old_tree)
        new_entries == walk_directory(new_tree)
        old_paths == path_set(old_entries)
        new_paths == path_set(new_entries)
        added == SortAscending(new_paths \ old_paths)
        removed == SortAscending(old_paths \ new_paths)
        common == SortAscending(old_paths \cap new_paths)
    IN  [dirs_to_create |->
            SelectSeq(added, LAMBDA p : EntryOf(new_entries, p).kind = "Dir"),
         files_to_add |->
            SelectSeq(added, LAMBDA p : EntryOf(new_entries, p).kind = "File"),
         dirs_to_delete |->
            SelectSeq(removed, LAMBDA p : EntryOf(old_entries, p).kind = "Dir"),
         files_to_delete |->
            SelectSeq(removed, LAMBDA p : EntryOf(old_entries, p).kind = "File"),
         files_maybe_modified |->
            SelectSeq(common, LAMBDA p : \/ EntryOf(old_entries, p).kind = "File"
                                         \/ EntryOf(new_entries, p).kind = "File")]

\* Stage 2: the classification of the paths.  The sets are BTreeSets, so
\* each difference and the intersection are visited in ascending order.
Classify(old_tree, new_tree) ==
    LET old_entries == walk_directory(old_tree)
        new_entries == walk_directory(new_tree)
        old_paths == path_set(old_entries)
        new_paths == path_set(new_entries)
        added == SortAscending(new_paths \ old_paths)
        removed == SortAscending(old_paths \ new_paths)
        common == SortAscending(old_paths \cap new_paths)
    IN  [dirs_to_create |->
            SelectSeq(added, LAMBDA p : EntryOf(new_entries, p).kind = "Dir"),
         files_to_add |->
            SelectSeq(added, LAMBDA p : EntryOf(new_entries, p).kind = "File"),
         dirs_to_delete |->
            SelectSeq(removed, LAMBDA p : EntryOf(old_entries, p).kind = "Dir"),
         files_to_delete |->
            SelectSeq(removed, LAMBDA p : EntryOf(old_entries, p).kind = "File"),
         files_maybe_modified |->
            SelectSeq(common, LAMBDA p : /\ EntryOf(old_entries, p).kind = "File"
                                         /\ EntryOf(new_entries, p).kind = "File")]

Assemble_DeleteFirst(dirs_to_create, add_results, diff_results, files_to_delete, dirs_to_delete) ==
    MapSeq(CreateDir, sort_dirs_parent_first(dirs_to_create))
      \o add_results
      \o MapSeq(DeleteFile, files_to_delete)
      \o diff_results
      \o MapSeq(DeleteDir, sort_dirs_deepest_first(dirs_to_delete))

\* Stage 5: the operations in the order of the phases, the directories to
\* create sorted parent-first and those to delete deepest-first.
Assemble(dirs_to_create, add_results, diff_results, files_to_delete, dirs_to_delete) ==
    MapSeq(CreateDir, sort_dirs_parent_first(dirs_to_create))
      \o add_results
      \o diff_results
      \o MapSeq(DeleteFile, files_to_delete)
      \o MapSeq(DeleteDir, sort_dirs_deepest_first(dirs_to_delete))

\* create_patch(old_dir, new_dir, output): the manifest written to output and
\* the summary returned.
create_patch(old_tree, new_tree) ==
    LET old_entries == walk_directory(old_tree)
        new_entries == walk_directory(new_tree)
        c == Classify(old_tree, new_tree)
        diffed == MapSeq(LAMBDA p : DiffOne(old_tree, new_tree, old_entries, new_entries, p),
                         c.files_maybe_modified)
        diff_results == MapSeq(LAMBDA r : r.op, SelectSeq(diffed, LAMBDA r : r.some))
        add_results == MapSeq(LAMBDA p : AddFile(p, new_tree[p].data,
                                                 hash_bytes(new_tree[p].data)),
                              c.files_to_add)
        operations == Assemble(c.dirs_to_create, add_results, diff_results,
                               c.files_to_delete, c.dirs_to_delete)
    IN  [manifest |-> PatchManifest(FORMAT_VERSION, operations),
         summary |-> ApplySummary(Len(c.dirs_to_create), Len(c.files_to_add),
                                  Len(diff_results), Len(c.files_to_delete),
                                  Len(c.dirs_to_delete))]

(***************************************************************************)
(* State.                                                                  *)
(*   hash_*   : a RollingHash sliding over a buffer (rolling_hash.rs)      *)
(*   diff_*, match_state : one call of compute_diff (binary_diff.rs)       *)
(***************************************************************************)
VARIABLES hash_data, hash_window, hash_pos, hash_rolling, hash_pc,
          diff_old, diff_new, diff_pc, match_state, diff_result,
          old_dir, new_dir, pc, patch_file, patch_kind, create_summary,
          fs, pre_fs, target_kind, plan, dir_idx,
          st, mod_buf, apply_result,
          dirs_in, dirs_pc, dirs_ops

hash_vars == <<hash_data, hash_window, hash_pos, hash_rolling, hash_pc>>
diff_vars == <<diff_old, diff_new, diff_pc, match_state, diff_result>>
input_vars == <<old_dir, new_dir, patch_file, patch_kind, create_summary, pre_fs,
                target_kind>>
worker_vars == <<st, mod_buf>>
tree_vars == <<input_vars, pc, fs, plan, dir_idx, worker_vars, apply_result>>
dirs_vars == <<dirs_in, dirs_pc, dirs_ops>>
vars == <<hash_vars, diff_vars, tree_vars, dirs_vars>>

HashIdle ==
    /\ hash_data = <<>>
    /\ hash_window = 0
    /\ hash_pos = 0
    /\ hash_rolling = RollingHash_new
    /\ hash_pc = "idle"

NoMatchState == [chunks |-> <<>>, pos |-> 0, rolling |-> RollingHash_new, insert_buf |-> <<>>]

DiffIdle ==
    /\ diff_old = <<>>
    /\ diff_new = <<>>
    /\ diff_pc = "idle"
    /\ match_state = NoMatchState
    /\ diff_result = <<>>

DirsIdle ==
    /\ dirs_in = [p \in {} |-> "create"]
    /\ dirs_pc = "idle"
    /\ dirs_ops = <<>>

(***************************************************************************)
(* The trees, the target directory and the patch file.                     *)
(***************************************************************************)
Contents == {<<1, 2>>, <<1, 2, 1>>, <<2, 1>>}

P_a == <<Ch.a>>
P_ab == <<Ch.a, Ch.slash, Ch.b>>
P_gz == <<Ch.b, Ch.dot, Ch.g, Ch.z>>

EntriesAt(p) ==
    IF p = P_gz THEN {Absent, File(<<1, 2>>), File(<<1, 2, 1>>)}
    ELSE {Absent, Dir} \cup {File(c) : c \in Contents}

Trees ==
    {tree \in [Universe -> {Absent, Dir} \cup {File(c) : c \in Contents}] :
        IsTree(tree) /\ \A p \in Universe : tree[p] \in EntriesAt(p)}

EmptyTree == [p \in Universe |-> Absent]

\* The target directory /t, and /x beside it.
TargetLoc == <<<<Ch.t>>>>
OutsideLoc == <<<<Ch.x>>>>
Locs == {TargetLoc, OutsideLoc} \cup {Join(TargetLoc, p) : p \in Universe}

\* The filesystem with a byte-identical copy of tree in the target directory.
CopyOf(tree) ==
    [l \in Locs |->
        IF l = TargetLoc THEN Dir
        ELSE IF \E p \in Universe : Join(TargetLoc, p) = l
             THEN tree[CHOOSE p \in Universe : Join(TargetLoc, p) = l]
        ELSE Absent]

\* The tree that is in the target directory.
TargetTree(f) == [p \in Universe |-> f[Join(TargetLoc, p)]]

\* A copy of tree that has drifted: one of its files has other bytes (those
\* of another file, or a single byte) or is missing, or one of its
\* directories is missing with all that was in it.
Drifts(tree) ==
    ({[tree EXCEPT ![p] = e] :
        p \in {q \in Universe : tree[q].kind = "File"},
        e \in ({Absent} \cup {File(c) : c \in Contents \cup {<<1>>}})}
     \cup {[q \in Universe |-> IF q = p \/ IsPrefix(p \o <<Ch.slash>>, q)
                                 THEN Absent ELSE tree[q]] :
             p \in {q \in Universe : tree[q].kind = "Dir"}}) \ {tree}

\* The patch file: its first bytes (8 at most) and what follows them;
\* bincode under zstd is modelled by what decoding gives back.
Encode(manifest) == [manifest |-> manifest, wellformed |-> TRUE]
Garbage == [manifest |-> PatchManifest(0, <<>>), wellformed |-> FALSE]
PatchFile(head, rest) == [head |-> head, rest |-> rest]

BadHeads == {<<>>, SubSeq(MAGIC, 1, 7), [MAGIC EXCEPT ![8] = 50]}
BadVersions == {0, 2}

\* Paths that break the wire convention: ../x, /x, a//b, ./a.
BadPaths ==
    {<<Ch.dot, Ch.dot, Ch.slash, Ch.x>>, <<Ch.slash, Ch.x>>,
     <<Ch.a, Ch.slash, Ch.slash, Ch.b>>, <<Ch.dot, Ch.slash, Ch.a>>}

BadPathOps ==
    UNION {{CreateDir(p), AddFile(p, <<1, 2>>, hash_bytes(<<1, 2>>)),
            ModifyFile(p, <<Insert(<<2, 1>>)>>, hash_bytes(<<2, 1>>)),
            DeleteFile(p), DeleteDir(p)} : p \in BadPaths}

NoPlan ==
    [create_dirs |-> <<>>, add_files |-> <<>>, modify_files |-> <<>>,
     delete_files |-> <<>>, delete_dirs |-> <<>>,
     root_deleted_dirs |-> <<>>, orphan_delete_files |-> <<>>]

\* The state of each operation of the three workers, per parallel loop.
NoWork == [add |-> <<>>, modify |-> <<>>, roots |-> <<>>, orphans |-> <<>>]

NoSummary == ApplySummary(0, 0, 0, 0, 0)
NoResult == [ok |-> FALSE, error |-> "", summary |-> NoSummary, returned |-> FALSE]
Ok(summary) == [ok |-> TRUE, error |-> "", summary |-> summary, returned |-> TRUE]
Err(error) == [ok |-> FALSE, error |-> error, summary |-> NoSummary, returned |-> TRUE]

TreeIdle ==
    /\ old_dir = EmptyTree
    /\ new_dir = EmptyTree
    /\ pc = "idle"
    /\ patch_file = PatchFile(<<>>, Garbage)
    /\ patch_kind = "none"
    /\ create_summary = NoSummary
    /\ fs = CopyOf(EmptyTree)
    /\ pre_fs = CopyOf(EmptyTree)
    /\ target_kind = "none"
    /\ plan = NoPlan
    /\ dir_idx = 1
    /\ st = NoWork
    /\ mod_buf = <<>>
    /\ apply_result = NoResult

(***************************************************************************)
(* The rolling hash: init over the first hash_window bytes of hash_data,   *)
(* then rotate along the buffer.  A buffer longer than a source block is   *)
(* hashed with the window of the source, 4096 bytes.                       *)
(***************************************************************************)
HashTails == SeqsUpTo({0, 1, 255}, MaxTail + 1) \ {<<>>}
HashInputs == {Rep(255, n) \o t : n \in {0, MaxRun, FULL_BLOCK_SIZE}, t \in HashTails}
HashWindows(data) ==
    IF Len(data) > FULL_BLOCK_SIZE THEN {FULL_BLOCK_SIZE}
    ELSE {w \in {1, 2, MaxRun, Len(data) - 1} : 1 <= w /\ w < Len(data)}

HashInitState ==
    /\ hash_data \in HashInputs
    /\ hash_window \in HashWindows(hash_data)
    /\ hash_pos = 0
    /\ hash_rolling = RollingHash_new
    /\ hash_pc = "new"
    /\ DiffIdle
    /\ TreeIdle
    /\ DirsIdle

HashInit ==
    /\ hash_pc = "new"
    /\ hash_rolling' = init(hash_rolling, Slice(hash_data, 0, hash_window))
    /\ hash_pc' = "ready"
    /\ UNCHANGED <<hash_data, hash_window, hash_pos, diff_vars, tree_vars, dirs_vars>>

HashRotate ==
    /\ hash_pc = "ready"
    /\ hash_pos + hash_window < Len(hash_data)
    /\ hash_rolling' = rotate(hash_rolling, hash_data[hash_pos + 1],
                              hash_data[hash_pos + hash_window + 1])
    /\ hash_pos' = hash_pos + 1
    /\ UNCHANGED <<hash_data, hash_window, hash_pc, diff_vars, tree_vars, dirs_vars>>

HashNext == HashInit \/ HashRotate

SpecHash == HashInitState /\ [][HashNext]_vars

(***************************************************************************)
(* compute_diff(diff_old, diff_new), one iteration of the match loop per   *)
(* step.  Besides every pair of buffers of at most MaxLen bytes, the       *)
(* inputs hold the longer new buffers over two byte values against an old  *)
(* buffer of at most a block and a byte: in those a match followed by a    *)
(* non-match still leaves a full window.                                   *)
(***************************************************************************)
DiffBytes == {0, 1, 2}
DiffInputs == SeqsUpTo(DiffBytes, MaxLen)

DiffInitState ==
    /\ \/ /\ diff_old \in DiffInputs
          /\ diff_new \in DiffInputs
       \/ /\ diff_old \in SeqsUpTo({0, 1}, BLOCK_SIZE + 1)
          /\ diff_new \in {s \in SeqsUpTo({0, 1}, 2 * BLOCK_SIZE + 1) : Len(s) > MaxLen}
    /\ diff_pc = "start"
    /\ match_state = NoMatchState
    /\ diff_result = <<>>
    /\ HashIdle
    /\ TreeIdle
    /\ DirsIdle

\* compute_diff: old is empty.
DiffEmptyOld ==
    /\ diff_pc = "start"
    /\ diff_old = <<>>
    /\ diff_result' = IF diff_new = <<>> THEN <<>> ELSE <<Insert(diff_new)>>
    /\ diff_pc' = "done"
    /\ UNCHANGED <<diff_old, diff_new, match_state, hash_vars, tree_vars, dirs_vars>>

\* match_blocks: new is shorter than a block.
DiffShortNew ==
    /\ diff_pc = "start"
    /\ diff_old # <<>>
    /\ Len(diff_new) < BLOCK_SIZE
    /\ diff_result' = <<Insert(diff_new)>>
    /\ diff_pc' = "done"
    /\ UNCHANGED <<diff_old, diff_new, match_state, hash_vars, tree_vars, dirs_vars>>

\* match_blocks: the rolling hash of the first window.
DiffBegin ==
    /\ diff_pc = "start"
    /\ diff_old # <<>>
    /\ Len(diff_new) >= BLOCK_SIZE
    /\ match_state' = MatchStart(diff_new)
    /\ diff_pc' = "loop"
    /\ UNCHANGED <<diff_old, diff_new, diff_result, hash_vars, tree_vars, dirs_vars>>

DiffLoopStep ==
    /\ diff_pc = "loop"
    /\ WindowFits(diff_new, match_state)
    /\ \E signatures \in {build_signatures(diff_old)} :
          \E hash_table \in {build_hash_table(signatures)} :
              match_state' = MatchStep(diff_old, diff_new, hash_table, signatures, match_state)
    /\ UNCHANGED <<diff_old, diff_new, diff_pc, diff_result, hash_vars, tree_vars, dirs_vars>>

DiffLoopEnd ==
    /\ diff_pc = "loop"
    /\ ~WindowFits(diff_new, match_state)
    /\ diff_result' = MatchFinish(diff_new, match_state)
    /\ diff_pc' = "done"
    /\ UNCHANGED <<diff_old, diff_new, match_state, hash_vars, tree_vars, dirs_vars>>

DiffNext == DiffEmptyOld \/ DiffShortNew \/ DiffBegin \/ DiffLoopStep \/ DiffLoopEnd

SpecDiff == DiffInitState /\ [][DiffNext]_vars

(***************************************************************************)
(* compute_diff run to its end: the code is sequential, so a step that can *)
(* be taken is taken.  The buffers are over two byte values; old is at     *)
(* most one byte longer than a block.                                      *)
(***************************************************************************)
FairInitState ==
    /\ diff_old \in SeqsUpTo({0, 1}, BLOCK_SIZE + 1)
    /\ diff_new \in SeqsUpTo({0, 1}, MaxLen)
    /\ diff_pc = "start"
    /\ match_state = NoMatchState
    /\ diff_result = <<>>
    /\ HashIdle
    /\ TreeIdle
    /\ DirsIdle

SpecDiffFair == FairInitState /\ [][DiffNext]_vars /\ WF_vars(DiffNext)

(***************************************************************************)
(* compute_diff on a prefix-only change: old is two or three full blocks   *)
(* and new is old with its first block replaced (test_prefix_changed).     *)
(***************************************************************************)
PrefixInitState ==
    /\ diff_old \in {s \in SeqsUpTo({0, 1}, 3 * BLOCK_SIZE) :
                        Len(s) \in {2 * BLOCK_SIZE, 3 * BLOCK_SIZE}}
    /\ diff_new \in {b \o Slice(diff_old, BLOCK_SIZE, Len(diff_old)) :
                        b \in {s \in SeqsUpTo(DiffBytes, BLOCK_SIZE) : Len(s) = BLOCK_SIZE}}
    /\ diff_new # diff_old
    /\ diff_pc = "start"
    /\ match_state = NoMatchState
    /\ diff_result = <<>>
    /\ HashIdle
    /\ TreeIdle
    /\ DirsIdle

PrefixNext == DiffBegin \/ DiffLoopStep \/ DiffLoopEnd

SpecPrefix == PrefixInitState /\ [][PrefixNext]_vars

(***************************************************************************)
(* Stage 5 of create_patch on sets of directories: each path of dirs_in is *)
(* a directory to create (in new only), to delete (in old only) or to keep *)
(* (a path of both trees).                                                 *)
(***************************************************************************)
\* Directories one or two levels deep, named a, a.b or b ('.' sorts before
\* '/', which sorts before the letters), and two directories of a third
\* level.
DirPaths ==
    LET names == {<<Ch.a>>, <<Ch.a, Ch.dot, Ch.b>>, <<Ch.b>>}
        below == {p \o <<Ch.slash>> \o n : p \in names, n \in names}
    IN  names \cup below
            \cup {<<Ch.a, Ch.slash, Ch.b, Ch.slash>> \o n : n \in {<<Ch.a>>, <<Ch.b>>}}

DirsInitState ==
    /\ dirs_in \in UNION {[S -> {"create", "delete", "keep"}] :
                            S \in {T \in SUBSET DirPaths : Cardinality(T) <= MaxDirs}}
    \* nothing of new lies below a directory that new lacks, and nothing of
    \* old below one that old lacks
    /\ \A p, q \in DOMAIN dirs_in :
          (dirs_in[p] # dirs_in[q] /\ dirs_in[p] # "keep") => ~IsPrefix(p \o <<Ch.slash>>, q)
    /\ dirs_pc = "input"
    /\ dirs_ops = <<>>
    /\ HashIdle
    /\ DiffIdle
    /\ TreeIdle

DirsAssemble ==
    /\ dirs_pc = "input"
    /\ dirs_ops' = Assemble(SortAscending({p \in DOMAIN dirs_in : dirs_in[p] = "create"}),
                            <<>>, <<>>, <<>>,
                            SortAscending({p \in DOMAIN dirs_in : dirs_in[p] = "delete"}))
    /\ dirs_pc' = "done"
    /\ UNCHANGED <<dirs_in, hash_vars, diff_vars, tree_vars>>

SpecDirs == DirsInitState /\ [][DirsAssemble]_vars

(***************************************************************************)
(* apply.rs.  The deletion plan.                                           *)
(***************************************************************************)
Paths(ops) == {ops[k].path : k \in DOMAIN ops}

IsRootDeletedDir_ParentDeleted(dir, deleted_dir_set) ==
    LET parent == PathParent(dir)
    IN  IF ~parent.some THEN TRUE
        ELSE parent.path = <<>> \/ parent.path \in deleted_dir_set

\* Root deleted dirs: those whose immediate parent is not also being deleted.
IsRootDeletedDir(dir, deleted_dir_set) ==
    LET parent == PathParent(dir)
    IN  IF ~parent.some THEN TRUE
        ELSE parent.path = <<>> \/ parent.path \notin deleted_dir_set

CoveredByDeletedDir_TopLevel(cur, deleted_dir_set) ==
    LET parent == PathParent(cur)
    IN  ~parent.some \/ parent.path = <<>> \/ parent.path \in deleted_dir_set

\* The ancestor loop of the orphan filter: TRUE when an ancestor of cur is
\* being deleted.
RECURSIVE CoveredByDeletedDir(_, _)
CoveredByDeletedDir(cur, deleted_dir_set) ==
    LET parent == PathParent(cur)
    IN  IF ~parent.some \/ parent.path = <<>> THEN FALSE
        ELSE IF parent.path \in deleted_dir_set THEN TRUE
        ELSE CoveredByDeletedDir(parent.path, deleted_dir_set)

root_deleted_dirs(delete_dirs) ==
    LET deleted_dir_set == Paths(delete_dirs)
    IN  SortAscending({d \in deleted_dir_set : IsRootDeletedDir(d, deleted_dir_set)})

orphan_delete_files(delete_files, delete_dirs) ==
    SelectSeq(delete_files, LAMBDA op : ~CoveredByDeletedDir(op.path, Paths(delete_dirs)))

\* The operations of the manifest grouped by kind, with the deletion plan.
Group(manifest) ==
    [create_dirs |-> OfType(manifest.operations, "CreateDir"),
     add_files |-> OfType(manifest.operations, "AddFile"),
     modify_files |-> OfType(manifest.operations, "ModifyFile"),
     delete_files |-> OfType(manifest.operations, "DeleteFile"),
     delete_dirs |-> OfType(manifest.operations, "DeleteDir"),
     root_deleted_dirs |-> root_deleted_dirs(OfType(manifest.operations, "DeleteDir")),
     orphan_delete_files |->
        orphan_delete_files(OfType(manifest.operations, "DeleteFile"),
                            OfType(manifest.operations, "DeleteDir"))]

SummaryOf_WhatIsRemoved(g) ==
    ApplySummary(Len(g.create_dirs), Len(g.add_files), Len(g.modify_files),
                 Len(g.orphan_delete_files), Len(g.root_deleted_dirs))

SummaryOf(g) ==
    ApplySummary(Len(g.create_dirs), Len(g.add_files), Len(g.modify_files),
                 Len(g.delete_files), Len(g.delete_dirs))

MagicOk_LengthOnly(file) == ~(Len(file.head) < Len(MAGIC))

\* The check of the header of the patch file.
MagicOk(file) == ~(Len(file.head) < Len(MAGIC) \/ file.head # MAGIC)

VersionOk_AtLeast(manifest) == manifest.version >= FORMAT_VERSION

VersionOk(manifest) == manifest.version = FORMAT_VERSION

LocParent(loc) == IF loc = <<>> THEN <<>> ELSE SubSeq(loc, 1, Len(loc) - 1)

Todo(ops) == [k \in 1..Len(ops) |-> "todo"]
Final == {"ok", "err_io", "err_hash", "panic", "skipped"}
Failed == {"err_io", "err_hash", "panic"}
AllFinal(states) == \A k \in DOMAIN states : states[k] \in Final
SomeFailed(states) == \E k \in DOMAIN states : states[k] \in Failed
SomePanic(states) == \E k \in DOMAIN states : states[k] = "panic"

(***************************************************************************)
(* The run: create_patch(old_dir, new_dir), then apply_patch on a target.  *)
(***************************************************************************)
TreeInitState ==
    /\ old_dir \in Trees
    /\ new_dir \in Trees
    /\ pc = "create"
    /\ patch_file = PatchFile(<<>>, Garbage)
    /\ patch_kind = "none"
    /\ create_summary = NoSummary
    /\ fs = CopyOf(EmptyTree)
    /\ pre_fs = CopyOf(EmptyTree)
    /\ target_kind = "none"
    /\ plan = NoPlan
    /\ dir_idx = 1
    /\ st = NoWork
    /\ mod_buf = <<>>
    /\ apply_result = NoResult
    /\ HashIdle
    /\ DiffIdle
    /\ DirsIdle

\* create_patch writes the magic and the encoded manifest and returns the
\* summary.
CreatePatch ==
    /\ pc = "create"
    /\ LET created == create_patch(old_dir, new_dir)
       IN  /\ patch_file' = PatchFile(MAGIC, Encode(created.manifest))
           /\ create_summary' = created.summary
    /\ patch_kind' = "created"
    /\ pc' = "prepare"
    /\ UNCHANGED <<old_dir, new_dir, fs, pre_fs, target_kind, plan, dir_idx,
                   worker_vars, apply_result, hash_vars, diff_vars, dirs_vars>>

\* The caller hands apply_patch another file than the one create_patch wrote.
Substitute(file, kind) ==
    /\ pc = "prepare"
    /\ patch_kind = "created"
    /\ patch_file' = file
    /\ patch_kind' = kind
    /\ UNCHANGED <<old_dir, new_dir, create_summary, pc, fs, pre_fs, target_kind, plan,
                   dir_idx, worker_vars, apply_result, hash_vars, diff_vars, dirs_vars>>

SubstituteHead == \E h \in BadHeads : Substitute(PatchFile(h, patch_file.rest), "bad_magic")

SubstituteVersion ==
    \E v \in BadVersions :
        Substitute(PatchFile(MAGIC, Encode(PatchManifest(v, patch_file.rest.manifest.operations))),
                   "bad_version")

SubstituteGarbage == Substitute(PatchFile(MAGIC, Garbage), "garbage")

SubstituteBadPath ==
    \E op \in BadPathOps :
        Substitute(PatchFile(MAGIC, Encode(PatchManifest(FORMAT_VERSION, <<op>>))), "bad_path")

\* The manifest of the patch file with the hash of one of its AddFile
\* operations replaced by the hash of other bytes.
SubstituteBadHash ==
    \E k \in DOMAIN patch_file.rest.manifest.operations :
        /\ patch_file.rest.manifest.operations[k].type = "AddFile"
        /\ Substitute(
              PatchFile(MAGIC,
                  Encode(PatchManifest(FORMAT_VERSION,
                      [patch_file.rest.manifest.operations EXCEPT
                          ![k].blake3_hash = hash_bytes(<<>>)]))),
              "bad_hash")

\* The manifest of the patch file with the chunks of one of its ModifyFile
\* operations replaced by one Copy of more bytes than the allocator grants.
SubstituteHugeCopy ==
    \E k \in DOMAIN patch_file.rest.manifest.operations :
        /\ patch_file.rest.manifest.operations[k].type = "ModifyFile"
        /\ Substitute(
              PatchFile(MAGIC,
                  Encode(PatchManifest(FORMAT_VERSION,
                      [patch_file.rest.manifest.operations EXCEPT
                          ![k].diff_chunks = <<Copy(0, MaxAlloc + 1)>>]))),
              "huge_copy")

\* The target directory: a byte-identical copy of old_dir, or a copy that has
\* drifted.
PrepareTarget(tree, kind) ==
    /\ pc = "prepare"
    /\ fs' = CopyOf(tree)
    /\ pre_fs' = CopyOf(tree)
    /\ target_kind' = kind
    /\ pc' = "parse"
    /\ UNCHANGED <<old_dir, new_dir, patch_file, patch_kind, create_summary, plan, dir_idx,
                   worker_vars, apply_result, hash_vars, diff_vars, dirs_vars>>

PrepareCopy == PrepareTarget(old_dir, "copy")

PrepareDrifted ==
    /\ patch_kind = "created"
    /\ \E tree \in Drifts(old_dir) : PrepareTarget(tree, "drifted")

Return(result) ==
    /\ apply_result' = result
    /\ pc' = "returned"

\* apply_patch up to the grouping of the operations: the magic, the decoding
\* and the version are checked before anything is done to the target.
ApplyParse ==
    /\ pc = "parse"
    /\ IF ~MagicOk(patch_file)
       THEN Return(Err("BadMagic")) /\ UNCHANGED <<plan, worker_vars>>
       ELSE IF ~patch_file.rest.wellformed
       THEN Return(Err("DeserializationFailed")) /\ UNCHANGED <<plan, worker_vars>>
       ELSE IF ~VersionOk(patch_file.rest.manifest)
       THEN Return(Err("UnsupportedVersion")) /\ UNCHANGED <<plan, worker_vars>>
       ELSE LET g == Group(patch_file.rest.manifest)
            IN  /\ plan' = g
                /\ st' = [add |-> Todo(g.add_files), modify |-> Todo(g.modify_files),
                           roots |-> Todo(g.root_deleted_dirs),
                           orphans |-> Todo(g.orphan_delete_files)]
                /\ mod_buf' = [k \in 1..Len(g.modify_files) |-> <<>>]
                /\ pc' = "create_dirs"
                /\ UNCHANGED apply_result
    /\ UNCHANGED <<input_vars, fs, dir_idx, hash_vars, diff_vars, dirs_vars>>

\* 1. Create directories, sequentially in the order of the manifest.
ApplyCreateDir ==
    /\ pc = "create_dirs"
    /\ dir_idx <= Len(plan.create_dirs)
    /\ LET io == create_dir_all(fs, Join(TargetLoc, plan.create_dirs[dir_idx].path))
       IN  /\ fs' = io.fs
           /\ IF io.ok
              THEN dir_idx' = dir_idx + 1 /\ UNCHANGED <<pc, apply_result>>
              ELSE Return(Err("IoError")) /\ UNCHANGED dir_idx
    /\ UNCHANGED <<input_vars, plan, worker_vars, hash_vars, diff_vars, dirs_vars>>

\* 2+3+4. The three workers are spawned once every directory is created.
ApplySpawn ==
    /\ pc = "create_dirs"
    /\ dir_idx > Len(plan.create_dirs)
    /\ pc' = "workers"
    /\ UNCHANGED <<input_vars, fs, plan, dir_idx, worker_vars, apply_result,
                   hash_vars, diff_vars, dirs_vars>>

\* The workers run from their spawn on; a worker that has started is not
\* stopped by the return of apply_patch.
\* An abort ends the process, and every worker with it.
Spawned ==
    /\ pc = "workers" \/ (pc = "returned" /\ apply_result.error = "JoinError")
    /\ \A k \in DOMAIN st.modify : st.modify[k] # "abort"

WorkerStep == UNCHANGED <<input_vars, pc, plan, dir_idx, apply_result, hash_vars, diff_vars, dirs_vars>>

\* The add worker, for the k-th AddFile: create the parent, write, verify.
AddMkdir(k) ==
    /\ Spawned /\ st.add[k] = "todo"
    /\ LET io == create_dir_all(fs, LocParent(Join(TargetLoc, plan.add_files[k].path)))
       IN  /\ fs' = io.fs
           /\ st' = [st EXCEPT !.add[k] = IF io.ok THEN "parent" ELSE "err_io"]
    /\ WorkerStep /\ UNCHANGED mod_buf

AddWrite(k) ==
    /\ Spawned /\ st.add[k] = "parent"
    /\ LET io == write(fs, Join(TargetLoc, plan.add_files[k].path), plan.add_files[k].data)
       IN  /\ fs' = io.fs
           /\ st' = [st EXCEPT !.add[k] = IF io.ok THEN "written" ELSE "err_io"]
    /\ WorkerStep /\ UNCHANGED mod_buf

AddVerify_NoCheck(k) ==
    /\ (pc = "workers" \/ (pc = "returned" /\ apply_result.error = "JoinError"))
    /\ st.add[k] = "written"
    /\ st' = [st EXCEPT !.add[k] = "ok"]
    /\ UNCHANGED <<input_vars, pc, plan, dir_idx, apply_result, hash_vars, diff_vars, dirs_vars,
                   fs, mod_buf>>

AddVerify(k) ==
    /\ Spawned /\ st.add[k] = "written"
    /\ st' = [st EXCEPT !.add[k] =
            IF hash_bytes(plan.add_files[k].data) # plan.add_files[k].blake3_hash
            THEN "err_hash" ELSE "ok"]
    /\ WorkerStep /\ UNCHANGED <<fs, mod_buf>>

\* The modify worker, for the k-th ModifyFile: map the file; replay the
\* chunks, drop the map and verify the hash; write.
ModMap(k) ==
    /\ Spawned /\ st.modify[k] = "todo"
    /\ LET old_mmap == mmap_file(fs, Join(TargetLoc, plan.modify_files[k].path))
       IN  /\ st' = [st EXCEPT !.modify[k] = IF old_mmap.ok THEN "mapped" ELSE "err_io"]
           /\ mod_buf' = [mod_buf EXCEPT ![k] = old_mmap.data]
    /\ WorkerStep /\ UNCHANGED fs

ModPatch_WriteBeforeVerify(k) ==
    /\ (pc = "workers" \/ (pc = "returned" /\ apply_result.error = "JoinError"))
    /\ st.modify[k] = "mapped"
    /\ LET new_data == apply_diff(mod_buf[k], plan.modify_files[k].diff_chunks)
           io == write(fs, Join(TargetLoc, plan.modify_files[k].path), new_data.data)
       IN  /\ st' = [st EXCEPT !.modify[k] =
                  IF new_data.aborted THEN "abort"
                  ELSE IF new_data.panicked THEN "panic"
                  ELSE IF ~io.ok THEN "err_io"
                  ELSE IF hash_bytes(new_data.data) # plan.modify_files[k].new_blake3_hash
                       THEN "err_hash"
                  ELSE "ok"]
           /\ mod_buf' = [mod_buf EXCEPT ![k] = new_data.data]
           /\ fs' = IF new_data.aborted \/ new_data.panicked THEN fs ELSE io.fs
    /\ UNCHANGED <<input_vars, pc, plan, dir_idx, apply_result, hash_vars, diff_vars, dirs_vars>>

ModPatch(k) ==
    /\ Spawned /\ st.modify[k] = "mapped"
    /\ LET new_data == apply_diff(mod_buf[k], plan.modify_files[k].diff_chunks)
       IN  /\ st' = [st EXCEPT !.modify[k] =
                  IF new_data.aborted THEN "abort"
                  ELSE IF new_data.panicked THEN "panic"
                  ELSE IF hash_bytes(new_data.data) # plan.modify_files[k].new_blake3_hash
                       THEN "err_hash"
                  ELSE "verified"]
           /\ mod_buf' = [mod_buf EXCEPT ![k] = new_data.data]
    /\ WorkerStep /\ UNCHANGED fs

ModWrite(k) ==
    /\ Spawned /\ st.modify[k] = "verified"
    /\ LET io == write(fs, Join(TargetLoc, plan.modify_files[k].path), mod_buf[k])
       IN  /\ fs' = io.fs
           /\ st' = [st EXCEPT !.modify[k] = IF io.ok THEN "ok" ELSE "err_io"]
    /\ WorkerStep /\ UNCHANGED mod_buf

\* The delete worker: the root deleted directories, then the orphan files;
\* a missing directory or file is not an error.
DelRoot(k) ==
    /\ Spawned /\ st.roots[k] = "todo"
    /\ LET io == remove_dir_all(fs, Join(TargetLoc, plan.root_deleted_dirs[k]))
       IN  /\ fs' = io.fs
           /\ st' = [st EXCEPT !.roots[k] =
                  IF io.ok \/ io.error = "NotFound" THEN "ok" ELSE "err_io"]
    /\ WorkerStep /\ UNCHANGED mod_buf

DelOrphan_NotFoundFails(k) ==
    /\ (pc = "workers" \/ (pc = "returned" /\ apply_result.error = "JoinError"))
    /\ st.orphans[k] = "todo"
    /\ \A r \in DOMAIN st.roots : st.roots[r] = "ok"
    /\ LET io == remove_file(fs, Join(TargetLoc, plan.orphan_delete_files[k].path))
       IN  /\ fs' = io.fs
           /\ st' = [st EXCEPT !.orphans[k] = IF io.ok THEN "ok" ELSE "err_io"]
    /\ UNCHANGED <<input_vars, pc, plan, dir_idx, apply_result, hash_vars, diff_vars,
                   dirs_vars, mod_buf>>

DelOrphan(k) ==
    /\ Spawned /\ st.orphans[k] = "todo"
    /\ AllFinal(st.roots) /\ ~SomeFailed(st.roots)
    /\ LET io == remove_file(fs, Join(TargetLoc, plan.orphan_delete_files[k].path))
       IN  /\ fs' = io.fs
           /\ st' = [st EXCEPT !.orphans[k] =
                  IF io.ok \/ io.error = "NotFound" THEN "ok" ELSE "err_io"]
    /\ WorkerStep /\ UNCHANGED mod_buf

\* try_for_each of one of the four parallel loops: once one of its operations
\* has failed, an operation not yet started may be left out.
Skip(loop, k) ==
    /\ Spawned /\ st[loop][k] = "todo" /\ SomeFailed(st[loop])
    /\ st' = [st EXCEPT ![loop][k] = "skipped"]
    /\ WorkerStep /\ UNCHANGED <<fs, mod_buf>>

AddDone == AllFinal(st.add)
ModDone == AllFinal(st.modify)
DelDone == AllFinal(st.roots) /\ (SomeFailed(st.roots) \/ AllFinal(st.orphans))

\* try_join!: a worker that panicked ends the wait with its JoinError at once;
\* else the results of the three workers are awaited and examined in the
\* order add, modify, delete.
ApplyJoinPanic ==
    /\ pc = "workers"
    /\ ModDone /\ SomePanic(st.modify)
    /\ Return(Err("JoinError"))
    /\ UNCHANGED <<input_vars, fs, plan, dir_idx, worker_vars, hash_vars, diff_vars, dirs_vars>>

ApplyJoin_IgnoresAddResult ==
    /\ pc = "workers"
    /\ AddDone /\ ModDone /\ DelDone
    /\ ~SomePanic(st.modify)
    /\ Return(IF SomeFailed(st.modify) THEN Err("ModifyFailed")
              ELSE IF SomeFailed(st.roots) \/ SomeFailed(st.orphans)
                   THEN Err("DeleteFailed")
              ELSE Ok(SummaryOf(plan)))
    /\ UNCHANGED <<input_vars, fs, plan, dir_idx, worker_vars, hash_vars, diff_vars, dirs_vars>>

ApplyJoin ==
    /\ pc = "workers"
    /\ AddDone /\ ModDone /\ DelDone
    /\ ~SomePanic(st.modify)
    /\ Return(IF SomeFailed(st.add) THEN Err("AddFailed")
              ELSE IF SomeFailed(st.modify) THEN Err("ModifyFailed")
              ELSE IF SomeFailed(st.roots) \/ SomeFailed(st.orphans)
                   THEN Err("DeleteFailed")
              ELSE Ok(SummaryOf(plan)))
    /\ UNCHANGED <<input_vars, fs, plan, dir_idx, worker_vars, hash_vars, diff_vars, dirs_vars>>

Next ==
    \/ CreatePatch
    \/ SubstituteHead
    \/ SubstituteVersion
    \/ SubstituteGarbage
    \/ SubstituteBadPath
    \/ SubstituteBadHash
    \/ SubstituteHugeCopy
    \/ PrepareCopy
    \/ PrepareDrifted
    \/ ApplyParse
    \/ ApplyCreateDir
    \/ ApplySpawn
    \/ \E k \in DOMAIN st.add : AddMkdir(k)
    \/ \E k \in DOMAIN st.add : AddWrite(k)
    \/ \E k \in DOMAIN st.add : AddVerify(k)
    \/ \E k \in DOMAIN st.modify : ModMap(k)
    \/ \E k \in DOMAIN st.modify : ModPatch(k)
    \/ \E k \in DOMAIN st.modify : ModWrite(k)
    \/ \E k \in DOMAIN st.roots : DelRoot(k)
    \/ \E k \in DOMAIN st.orphans : DelOrphan(k)
    \/ \E loop \in DOMAIN st : \E k \in DOMAIN st[loop] : Skip(loop, k)
    \/ ApplyJoinPanic
    \/ ApplyJoin

Spec == TreeInitState /\ [][Next]_vars

(***************************************************************************)
(* Properties.                                                             *)
(***************************************************************************)
Manifest == patch_file.rest.manifest

\* apply_patch runs or has run on the patch file and the target.
Applying == pc \in {"parse", "create_dirs", "workers", "returned"}

\* No worker is still running.
Quiet == AddDone /\ ModDone /\ DelDone

KindChanged(p) ==
    /\ old_dir[p].kind # new_dir[p].kind
    /\ old_dir[p].kind # "Absent"
    /\ new_dir[p].kind # "Absent"

\* C1: create_patch(old, new), then apply_patch on a byte-identical copy of
\* old, succeeds and leaves exactly the tree new in the target: the same
\* paths, of the same kinds, with the same bytes.
C1_RoundTrip ==
    (patch_kind = "created" /\ target_kind = "copy" /\ pc = "returned") =>
        apply_result.ok /\ TargetTree(fs) = new_dir

\* C2: for all byte strings old and new, apply_diff(old, compute_diff(old, new))
\* returns new (and does not panic).
C2_DiffRoundTrip ==
    diff_pc = "done" =>
        apply_diff(diff_old, diff_result) = [data |-> diff_new, panicked |-> FALSE, aborted |-> FALSE]

\* C2 witness: a finished diff of a new buffer that is longer than a block and
\* not a multiple of the block size, made of a Copy and an Insert chunk.
C2_Witness ==
    /\ diff_pc = "done"
    /\ Len(diff_new) > BLOCK_SIZE
    /\ Len(diff_new) % BLOCK_SIZE # 0
    /\ \E i, j \in DOMAIN diff_result :
          diff_result[i].type = "Copy" /\ diff_result[j].type = "Insert"

\* C3: after init(block) and rotate(block[0], b) the digest is that of a fresh
\* init over block[1..] followed by b.
C3_RotateEqualsFreshInit ==
    (hash_pc = "ready" /\ hash_pos = 1) =>
        digest(hash_rolling) =
            digest(init(RollingHash_new, Slice(hash_data, 1, 1 + hash_window)))

\* C3 witness: one rotate done on a window whose sums exceed the modulus.
C3_Witness ==
    /\ hash_pc = "ready"
    /\ hash_pos = 1
    /\ InitAccumulate(Slice(hash_data, 0, hash_window), 1, 0)[1] >= MOD_ADLER


\* C4: for identical trees create_patch writes a manifest without operations
\* and returns a summary of zeros, and applying the patch to a copy changes
\* nothing in the target and succeeds.
C4_IdenticalTreesNoOp ==
    (patch_kind = "created" /\ old_dir = new_dir) =>
        /\ Manifest.operations = <<>>
        /\ create_summary = NoSummary
        /\ target_kind = "copy" => fs = CopyOf(old_dir)
        /\ (target_kind = "copy" /\ pc = "returned") => apply_result.ok

\* C4 witness: the patch of two identical trees that hold files has been
\* applied to a copy.
C4_Witness ==
    /\ patch_kind = "created" /\ old_dir = new_dir
    /\ target_kind = "copy" /\ pc = "returned"
    /\ old_dir[P_ab].kind = "File" /\ old_dir[P_gz].kind = "File"

SummaryTotal(summary) ==
    summary.files_added + summary.files_modified + summary.files_deleted
        + summary.dirs_created + summary.dirs_deleted

\* C5: for trees that are not identical, the counters of the summary of
\* create_patch add up to more than 0.
C5_NonIdenticalCounted ==
    (patch_kind # "none" /\ old_dir # new_dir) => SummaryTotal(create_summary) > 0

\* C6: a path that is a file with the same bytes in both trees is the target
\* of no operation of the manifest, whatever the other paths are.
C6_IdenticalFileNoOp ==
    patch_kind = "created" =>
        \A p \in Universe :
            (old_dir[p].kind = "File" /\ new_dir[p] = old_dir[p]) =>
                \A k \in DOMAIN Manifest.operations : Manifest.operations[k].path # p

\* C6 witness: a manifest with operations, for trees that share an unchanged
\* file.
C6_Witness ==
    /\ patch_kind = "created"
    /\ Manifest.operations # <<>>
    /\ \E p \in Universe : old_dir[p].kind = "File" /\ new_dir[p] = old_dir[p]

\* C7: when the first 8 bytes of the patch file are not the magic (a shorter
\* file included), apply_patch returns an error and changes nothing in the
\* target: it never gets past the parsing.
C7_BadMagicRejected ==
    (Applying /\ patch_file.head # MAGIC) =>
        /\ fs = pre_fs
        /\ pc \in {"parse", "returned"}
        /\ pc = "returned" => ~apply_result.ok /\ apply_result.error = "BadMagic"

\* C7 witness: apply_patch has returned on a patch file of 7 bytes, the
\* manifest of which had operations.
C7_Witness ==
    /\ pc = "returned"
    /\ Len(patch_file.head) = 7
    /\ Manifest.operations # <<>>

\* C8: when the manifest of a well-formed patch has a version other than 1,
\* apply_patch returns an error and changes nothing in the target, whatever the
\* operations of the manifest.
C8_BadVersionRejected ==
    (Applying /\ patch_file.head = MAGIC /\ patch_file.rest.wellformed
        /\ Manifest.version # 1) =>
        /\ fs = pre_fs
        /\ pc \in {"parse", "returned"}
        /\ pc = "returned" =>
              ~apply_result.ok /\ apply_result.error = "UnsupportedVersion"

\* C8 witness: apply_patch has returned on a manifest of version 2 that lists
\* operations.
C8_Witness ==
    /\ pc = "returned"
    /\ patch_file.head = MAGIC /\ patch_file.rest.wellformed
    /\ Manifest.version = 2
    /\ Manifest.operations # <<>>

\* C9: apply_patch rejects a manifest with an operation whose path has a
\* leading slash, a "." or ".." segment or an empty component: it returns an
\* error and executes none of its operations, so that nothing changes, inside
\* or outside the target directory.
C9_BadPathsRejected ==
    (Applying /\ patch_file.head = MAGIC /\ patch_file.rest.wellformed
        /\ \E k \in DOMAIN Manifest.operations :
              ~WellFormedPath(Manifest.operations[k].path)) =>
        /\ fs = pre_fs
        /\ pc = "returned" => ~apply_result.ok

\* C10: when the bytes replayed from the chunks of a ModifyFile do not hash to
\* its new_blake3_hash, the file keeps its pre-patch bytes and apply_patch
\* returns an error.
C10_ModifyVerifiedBeforeWrite ==
    \A k \in DOMAIN st.modify :
        st.modify[k] = "err_hash" =>
            /\ fs[Join(TargetLoc, plan.modify_files[k].path)]
                 = pre_fs[Join(TargetLoc, plan.modify_files[k].path)]
            /\ pc = "returned" => ~apply_result.ok

\* C10 witness: apply_patch has returned after the replay of a ModifyFile
\* gave bytes of another hash.
C10_Witness ==
    /\ pc = "returned"
    /\ \E k \in DOMAIN st.modify : st.modify[k] = "err_hash"


\* C11: an AddFile whose data does not hash to its recorded hash makes
\* apply_patch return an error; the check follows the write, so the file is on
\* disk with the data when the check fails, and apply_patch never returns
\* success while a file it added has bytes of another hash than the recorded.
C11_AddVerifiedAfterWrite ==
    /\ \A k \in DOMAIN st.add :
          st.add[k] = "err_hash" =>
              /\ fs[Join(TargetLoc, plan.add_files[k].path)] = File(plan.add_files[k].data)
              /\ pc = "returned" => ~apply_result.ok
    /\ (pc = "returned" /\ apply_result.ok) =>
          \A k \in DOMAIN plan.add_files :
              /\ hash_bytes(plan.add_files[k].data) = plan.add_files[k].blake3_hash
              /\ hash_bytes(fs[Join(TargetLoc, plan.add_files[k].path)].data)
                    = plan.add_files[k].blake3_hash

\* C11 witness: apply_patch has returned after the check of an added file
\* failed.
C11_Witness ==
    /\ pc = "returned"
    /\ patch_kind = "bad_hash"
    /\ \E k \in DOMAIN st.add : st.add[k] = "err_hash"

\* C12: in the manifest written by create_patch the operations come grouped
\* by kind in the order CreateDir, AddFile, ModifyFile, DeleteFile, DeleteDir:
\* none of an earlier kind follows one of a later kind.
C12_GroupedByKind ==
    patch_kind = "created" =>
        LET rank == [CreateDir |-> 1, AddFile |-> 2, ModifyFile |-> 3,
                     DeleteFile |-> 4, DeleteDir |-> 5]
        IN  \A i, j \in DOMAIN Manifest.operations :
                i < j => rank[Manifest.operations[i].type] <= rank[Manifest.operations[j].type]

\* C12 witness: a manifest with operations of three kinds, a ModifyFile among
\* them.
C12_Witness ==
    /\ patch_kind = "created"
    /\ Cardinality({Manifest.operations[k].type : k \in DOMAIN Manifest.operations}) >= 3
    /\ \E k \in DOMAIN Manifest.operations : Manifest.operations[k].type = "ModifyFile"

\* C13: in the manifest a CreateDir of a directory precedes the CreateDir of
\* each of its descendants, and a DeleteDir of a directory precedes the
\* DeleteDir of each of its ancestors, whatever the set of paths: sorting the
\* strings is enough.
C13_ParentFirstChildrenFirst ==
    dirs_pc = "done" =>
        \A i, j \in DOMAIN dirs_ops :
            (/\ dirs_ops[i].type = dirs_ops[j].type
             /\ IsPrefix(dirs_ops[i].path \o <<Ch.slash>>, dirs_ops[j].path)) =>
                IF dirs_ops[i].type = "CreateDir" THEN i < j ELSE j < i

\* C13 witness: the manifest deletes a, a.b and a/b; a.b sorts between a and
\* its child.
C13_Witness ==
    /\ dirs_pc = "done"
    /\ \A p \in {<<Ch.a>>, <<Ch.a, Ch.dot, Ch.b>>, <<Ch.a, Ch.slash, Ch.b>>} :
          \E k \in DOMAIN dirs_ops : dirs_ops[k] = DeleteDir(p)

\* C14: in the manifest written by create_patch no path is the target of two
\* operations: the CreateDir paths are disjoint from the DeleteDir paths, and
\* the AddFile, ModifyFile and DeleteFile paths are pairwise disjoint.
C14_OneOperationPerPath ==
    patch_kind = "created" =>
        \A i, j \in DOMAIN Manifest.operations :
            i # j => Manifest.operations[i].path # Manifest.operations[j].path

\* C14 witness: a manifest that adds a file, deletes another and has a third
\* operation.
C14_Witness ==
    /\ patch_kind = "created"
    /\ Len(Manifest.operations) >= 3
    /\ \E i, j \in DOMAIN Manifest.operations :
          Manifest.operations[i].type = "AddFile" /\ Manifest.operations[j].type = "DeleteFile"

\* C15: no operation of the add, modify and delete workers starts before
\* every CreateDir of the manifest has been executed, and apply_patch, once the
\* workers are spawned, returns only after the three of them have finished.
C15_DirsFirstThenJoin ==
    /\ pc \in {"parse", "create_dirs"} =>
          \A loop \in DOMAIN st : \A k \in DOMAIN st[loop] : st[loop][k] = "todo"
    /\ (pc = "returned"
          /\ apply_result.error \notin {"BadMagic", "DeserializationFailed",
                                         "UnsupportedVersion", "IoError"}) => Quiet

\* C16: for a manifest of create_patch applied to a copy of old, no path that
\* a worker writes, rewrites or removes (the parents the add worker creates
\* and all below a removed directory included) equals, lies under or contains
\* a path of a worker of another kind; and once the workers have finished the
\* target holds the tree that running every operation, one after the other
\* in the order of the manifest, leaves: the same tree for every interleaving.
C16_WorkersDisjointAndConfluent ==
    (patch_kind = "created" /\ target_kind = "copy"
        /\ (pc = "workers" \/ (pc = "returned" /\ (apply_result.ok \/
               apply_result.error \in {"AddFailed", "ModifyFailed", "DeleteFailed",
                                        "JoinError"})))) =>
        LET Loc(op) == Join(TargetLoc, op.path)
            ExecCreateDir(f, op) == create_dir_all(f, Loc(op)).fs
            ExecAdd(f, op) ==
                LET made == create_dir_all(f, LocParent(Loc(op)))
                IN  IF made.ok THEN write(made.fs, Loc(op), op.data).fs ELSE made.fs
            ExecModify(f, op) ==
                LET old_mmap == mmap_file(f, Loc(op))
                    new_data == apply_diff(old_mmap.data, op.diff_chunks)
                IN  IF old_mmap.ok /\ ~new_data.panicked
                        /\ hash_bytes(new_data.data) = op.new_blake3_hash
                    THEN write(f, Loc(op), new_data.data).fs
                    ELSE f
            ExecRoot(f, dir) == remove_dir_all(f, Join(TargetLoc, dir)).fs
            ExecOrphan(f, op) == remove_file(f, Loc(op)).fs
            Exec(f, x, loop) ==
                CASE loop = "create_dirs" -> ExecCreateDir(f, x)
                  [] loop = "add" -> ExecAdd(f, x)
                  [] loop = "modify" -> ExecModify(f, x)
                  [] loop = "roots" -> ExecRoot(f, x)
                  [] loop = "orphans" -> ExecOrphan(f, x)
            RECURSIVE Fold(_, _, _, _)
            Fold(f, ops, k, loop) ==
                IF k > Len(ops) THEN f ELSE Fold(Exec(f, ops[k], loop), ops, k + 1, loop)
            spawned == Fold(pre_fs, plan.create_dirs, 1, "create_dirs")
            sequential ==
                Fold(Fold(Fold(Fold(spawned, plan.add_files, 1, "add"),
                               plan.modify_files, 1, "modify"),
                          plan.root_deleted_dirs, 1, "roots"),
                     plan.orphan_delete_files, 1, "orphans")
            add_touched ==
                UNION {{Loc(plan.add_files[k])}
                         \cup {l \in Prefixes(LocParent(Loc(plan.add_files[k]))) :
                                  spawned[l].kind # "Dir"} : k \in DOMAIN plan.add_files}
            modify_touched == {Loc(plan.modify_files[k]) : k \in DOMAIN plan.modify_files}
            delete_touched ==
                {Join(TargetLoc, plan.root_deleted_dirs[k]) : k \in DOMAIN plan.root_deleted_dirs}
                  \cup {Loc(plan.orphan_delete_files[k]) : k \in DOMAIN plan.orphan_delete_files}
            Apart(X, Y) == \A x \in X, y \in Y : ~IsPrefix(x, y) /\ ~IsPrefix(y, x)
        IN  /\ Apart(add_touched, modify_touched)
            /\ Apart(add_touched, delete_touched)
            /\ Apart(modify_touched, delete_touched)
            /\ (pc = "returned" /\ Quiet) => fs = sequential

C18_EmptyNewDeletesAll ==
    (patch_kind = "created" /\ new_dir = EmptyTree /\ old_dir # EmptyTree) =>
        /\ Len(Manifest.operations) = Cardinality(walk_directory(old_dir))
        /\ \A e \in walk_directory(old_dir) :
              \E k \in DOMAIN Manifest.operations :
                  Manifest.operations[k] =
                      IF e.kind = "File" THEN DeleteFile(e.relative_path)
                      ELSE DeleteDir(e.relative_path)
        /\ (target_kind = "copy" /\ pc = "returned") =>
              apply_result.ok /\ TargetTree(fs) = EmptyTree

\* C18 witness: the patch that empties a tree with a file in a directory and
\* a file beside it has been applied to a copy.
C18_Witness ==
    /\ patch_kind = "created" /\ new_dir = EmptyTree
    /\ old_dir[P_ab].kind = "File" /\ old_dir[P_gz].kind = "File"
    /\ target_kind = "copy" /\ pc = "returned"

\* C19: when old is empty and new is not, the manifest holds one operation
\* for every entry of new and nothing else, an AddFile with the bytes of a
\* file and a CreateDir for a directory, and applying it to an empty target
\* succeeds and leaves exactly the tree new.
C19_EmptyOldAddsAll ==
    (patch_kind = "created" /\ old_dir = EmptyTree /\ new_dir # EmptyTree) =>
        /\ Len(Manifest.operations) = Cardinality(walk_directory(new_dir))
        /\ \A e \in walk_directory(new_dir) :
              \E k \in DOMAIN Manifest.operations :
                  Manifest.operations[k] =
                      IF e.kind = "File"
                      THEN AddFile(e.relative_path, new_dir[e.relative_path].data,
                                   hash_bytes(new_dir[e.relative_path].data))
                      ELSE CreateDir(e.relative_path)
        /\ (target_kind = "copy" /\ pc = "returned") =>
              apply_result.ok /\ TargetTree(fs) = new_dir

\* C19 witness: the patch of an empty tree to one with an empty directory in
\* a directory and a file beside them has been applied to an empty target.
C19_Witness ==
    /\ patch_kind = "created" /\ old_dir = EmptyTree
    /\ new_dir[P_ab].kind = "Dir" /\ new_dir[P_gz].kind = "File"
    /\ target_kind = "copy" /\ pc = "returned"

\* C20: for a buffer x at least one block long, compute_diff(x, x) has at
\* least floor(|x| / BLOCK_SIZE) Copy chunks, and replaying it on x gives x.
C20_SelfDiffCopies ==
    (diff_pc = "done" /\ diff_old = diff_new /\ Len(diff_new) >= BLOCK_SIZE) =>
        /\ Cardinality({k \in DOMAIN diff_result : diff_result[k].type = "Copy"})
              >= Len(diff_new) \div BLOCK_SIZE
        /\ apply_diff(diff_new, diff_result) = [data |-> diff_new, panicked |-> FALSE, aborted |-> FALSE]

\* C20 witness: the finished diff of a buffer with itself, the buffer being
\* at least two blocks long and its first two blocks different.
C20_Witness ==
    /\ diff_pc = "done" /\ diff_old = diff_new
    /\ Len(diff_new) >= 2 * BLOCK_SIZE
    /\ Slice(diff_new, 0, BLOCK_SIZE) # Slice(diff_new, BLOCK_SIZE, 2 * BLOCK_SIZE)

\* C21: every Copy chunk that compute_diff(old, new) emits, while it runs and
\* in what it returns, has offset + length <= |old| and length >= 1.
C21_CopyWithinOld ==
    \A chunks \in {match_state.chunks, diff_result} :
        \A k \in DOMAIN chunks :
            chunks[k].type = "Copy" =>
                /\ chunks[k].offset + chunks[k].length <= Len(diff_old)
                /\ chunks[k].length >= 1

\* C21 witness: a finished diff with a Copy of the last block of old, for a
\* new buffer longer than old whose old does not end on a block boundary.
C21_Witness ==
    /\ diff_pc = "done"
    /\ Len(diff_new) > Len(diff_old)
    /\ Len(diff_old) % BLOCK_SIZE # 0
    /\ \E k \in DOMAIN diff_result :
          /\ diff_result[k].type = "Copy"
          /\ diff_result[k].offset + BLOCK_SIZE = (Len(diff_old) \div BLOCK_SIZE) * BLOCK_SIZE

\* compute_diff has returned for an old buffer of n >= 2 full blocks and a
\* new buffer that is old with another first block.
PrefixChanged ==
    /\ diff_pc = "done"
    /\ Len(diff_old) % BLOCK_SIZE = 0 /\ Len(diff_old) >= 2 * BLOCK_SIZE
    /\ Len(diff_new) = Len(diff_old)
    /\ Slice(diff_new, BLOCK_SIZE, Len(diff_new)) = Slice(diff_old, BLOCK_SIZE, Len(diff_old))
    /\ Slice(diff_new, 0, BLOCK_SIZE) # Slice(diff_old, 0, BLOCK_SIZE)

\* At most one Insert, which is the first chunk and at most a block long; the
\* other chunks are Copy chunks, at least n - 1 of them, and what they copy
\* ends with blocks 2..n of new.
HeadInsertThenCopies ==
    LET n == Len(diff_old) \div BLOCK_SIZE
        inserts == {k \in DOMAIN diff_result : diff_result[k].type = "Insert"}
        copies == SelectSeq(diff_result, LAMBDA chunk : chunk.type = "Copy")
        copied == apply_diff(diff_old, copies).data
        rest == (n - 1) * BLOCK_SIZE
    IN  /\ Cardinality(inserts) <= 1
        /\ \A k \in inserts : k = 1 /\ Len(diff_result[k].data) <= BLOCK_SIZE
        /\ Len(copies) >= n - 1
        /\ Len(copied) >= rest
        /\ SubSeq(copied, Len(copied) - rest + 1, Len(copied))
              = Slice(diff_new, BLOCK_SIZE, Len(diff_new))

\* C22 as stated: for an old buffer of n >= 2 full blocks and a new buffer
\* that is old with its first block replaced by other bytes, compute_diff
\* returns at most one Insert, the first chunk and at most a block long,
\* followed only by Copy chunks, at least n - 1, that reproduce blocks 2..n.
C22_PrefixChange_AsStated == PrefixChanged => HeadInsertThenCopies

\* C22, amended: the same when none of the bytes that replace the first block
\* occurs in old; the Insert is then the first chunk and holds that block.
C22_PrefixChange ==
    (PrefixChanged
        /\ \A i \in 1..BLOCK_SIZE : \A j \in DOMAIN diff_old : diff_new[i] # diff_old[j]) =>
        /\ HeadInsertThenCopies
        /\ diff_result[1] = Insert(Slice(diff_new, 0, BLOCK_SIZE))

\* C22 witness: the finished diff of three blocks, the second and third of
\* which differ, with a first block of bytes that old does not have.
C22_Witness ==
    /\ PrefixChanged
    /\ Len(diff_old) = 3 * BLOCK_SIZE
    /\ Slice(diff_old, BLOCK_SIZE, 2 * BLOCK_SIZE) # Slice(diff_old, 2 * BLOCK_SIZE, 3 * BLOCK_SIZE)
    /\ \A i \in 1..BLOCK_SIZE : \A j \in DOMAIN diff_old : diff_new[i] # diff_old[j]

\* The number of operations of each kind in the manifest of the patch file.
ManifestCounts ==
    ApplySummary(Len(OfType(Manifest.operations, "CreateDir")),
                 Len(OfType(Manifest.operations, "AddFile")),
                 Len(OfType(Manifest.operations, "ModifyFile")),
                 Len(OfType(Manifest.operations, "DeleteFile")),
                 Len(OfType(Manifest.operations, "DeleteDir")))

\* C23: the summary that apply_patch returns counts the operations of the
\* manifest by kind, the DeleteFile operations below a directory removed in
\* bulk included; the summary of create_patch has the same five counters for
\* the manifest it wrote, files_modified counting the ModifyFile operations
\* emitted.
C23_SummariesCountManifest ==
    /\ (pc = "returned" /\ apply_result.ok) => apply_result.summary = ManifestCounts
    /\ patch_kind = "created" => create_summary = ManifestCounts
    /\ (patch_kind = "created" /\ pc = "returned" /\ apply_result.ok) =>
          apply_result.summary = create_summary

\* C23 witness: apply_patch has returned the summary of a manifest with a
\* ModifyFile and a DeleteFile below a deleted directory.
C23_Witness ==
    /\ patch_kind = "created" /\ pc = "returned" /\ apply_result.ok
    /\ Len(plan.orphan_delete_files) < Len(plan.delete_files)
    /\ plan.modify_files # <<>>

\* C24: when an operation of the add, modify or delete worker has failed,
\* apply_patch returns an error and no summary; nothing is rolled back: what
\* the operations of the three workers have written or removed is in the
\* target from then on, after the return too.
C24_FailureKeepsChanges ==
    /\ (pc = "returned" /\ \E loop \in DOMAIN st : SomeFailed(st[loop])) =>
          /\ ~apply_result.ok
          /\ apply_result.summary = NoSummary
          /\ apply_result.error \in {"AddFailed", "ModifyFailed", "DeleteFailed", "JoinError"}
    /\ \A k \in DOMAIN st.add :
          st.add[k] \in {"written", "ok", "err_hash"} =>
              fs[Join(TargetLoc, plan.add_files[k].path)] = File(plan.add_files[k].data)
    /\ \A k \in DOMAIN st.modify :
          st.modify[k] = "ok" =>
              fs[Join(TargetLoc, plan.modify_files[k].path)] = File(mod_buf[k])
    /\ \A k \in DOMAIN st.roots :
          st.roots[k] = "ok" =>
              \A l \in DOMAIN fs :
                  IsPrefix(Join(TargetLoc, plan.root_deleted_dirs[k]), l) => fs[l] = Absent
    /\ \A k \in DOMAIN st.orphans :
          st.orphans[k] = "ok" =>
              fs[Join(TargetLoc, plan.orphan_delete_files[k].path)] = Absent

\* C24 witness: apply_patch has returned the error of the modify worker while
\* the delete worker has removed a file that was there: the target is
\* neither the tree it was nor the new tree.
C24_Witness ==
    /\ pc = "returned" /\ apply_result.error = "ModifyFailed"
    /\ \E k \in DOMAIN st.orphans :
          /\ st.orphans[k] = "ok"
          /\ pre_fs[Join(TargetLoc, plan.orphan_delete_files[k].path)].kind = "File"
    /\ fs # pre_fs
    /\ TargetTree(fs) # new_dir

\* C25: for a manifest of create_patch and a copy of old, the deletion plan
\* (remove_dir_all of each root deleted directory, then remove_file of each
\* orphan delete file) leaves the tree that executing every DeleteFile
\* (remove_file) and then every DeleteDir (remove_dir, of an empty directory)
\* one by one in the order of the manifest leaves, none of these failing:
\* every DeleteFile and DeleteDir path is absent, nothing else is touched and
\* no path of the new tree is removed; so it is in the target once apply_patch
\* has returned a summary.
C25_DeletionPlanEquivalent ==
    (patch_kind = "created" /\ target_kind = "copy"
        /\ pc \in {"create_dirs", "workers", "returned"}) =>
        LET Loc(path) == Join(TargetLoc, path)
            remove_dir(f, loc) ==
                IF KindAt(f, loc) # "Dir" \/ loc = <<>> THEN IoErr(f, "NotADirectory")
                ELSE IF \E l \in DOMAIN f : IsProperPrefix(loc, l) /\ f[l].kind # "Absent"
                     THEN IoErr(f, "DirectoryNotEmpty")
                ELSE IoOk([f EXCEPT ![loc] = Absent])
            Exec(f, x, loop) ==
                CASE loop = "roots" -> remove_dir_all(f, Loc(x))
                  [] loop = "orphans" -> remove_file(f, Loc(x.path))
                  [] loop = "delete_files" -> remove_file(f, Loc(x.path))
                  [] loop = "delete_dirs" -> remove_dir(f, Loc(x.path))
            \* the filesystem after the operations from the k-th on, with
            \* ok = FALSE once one of them failed otherwise than by NotFound
            RECURSIVE Fold(_, _, _, _)
            Fold(io, ops, k, loop) ==
                IF k > Len(ops) THEN io
                ELSE LET r == Exec(io.fs, ops[k], loop)
                     IN  Fold([ok |-> io.ok /\ (r.ok \/ r.error = "NotFound"),
                               error |-> r.error, fs |-> r.fs],
                              ops, k + 1, loop)
            planned == Fold(Fold(IoOk(pre_fs), plan.root_deleted_dirs, 1, "roots"),
                            plan.orphan_delete_files, 1, "orphans")
            one_by_one == Fold(Fold(IoOk(pre_fs), plan.delete_files, 1, "delete_files"),
                               plan.delete_dirs, 1, "delete_dirs")
            deleted == {Loc(p) : p \in Paths(plan.delete_files) \cup Paths(plan.delete_dirs)}
        IN  /\ planned.ok /\ one_by_one.ok
            /\ planned.fs = one_by_one.fs
            /\ planned.fs = [l \in DOMAIN pre_fs |-> IF l \in deleted THEN Absent ELSE pre_fs[l]]
            /\ \A p \in Universe : new_dir[p].kind # "Absent" => Loc(p) \notin deleted
            /\ (pc = "returned" /\ apply_result.ok) =>
                  \A l \in DOMAIN fs :
                      /\ l \in deleted => fs[l] = Absent
                      /\ fs[l] = Absent => (l \in deleted \/ pre_fs[l] = Absent)

\* C25 witness: apply_patch has returned a summary for a manifest that deletes
\* a directory with a directory in it (one root for two DeleteDir operations)
\* and keeps a file of the new tree.
C25_Witness ==
    /\ patch_kind = "created" /\ target_kind = "copy"
    /\ pc = "returned" /\ apply_result.ok
    /\ Len(plan.delete_dirs) = 2 /\ Len(plan.root_deleted_dirs) = 1
    /\ new_dir # EmptyTree

\* C26: in a manifest of create_patch, for each DeleteDir path d every entry
\* of the old tree below d is the target of a DeleteFile or a DeleteDir, and
\* no CreateDir, AddFile or ModifyFile path lies below d.
C26_DeleteDirCoversSubtree ==
    patch_kind = "created" =>
        \A i \in DOMAIN Manifest.operations :
            Manifest.operations[i].type = "DeleteDir" =>
                LET below(p) == IsPrefix(Manifest.operations[i].path \o <<Ch.slash>>, p)
                IN  /\ \A p \in Universe :
                          (old_dir[p].kind # "Absent" /\ below(p)) =>
                              \E j \in DOMAIN Manifest.operations :
                                  /\ Manifest.operations[j].path = p
                                  /\ Manifest.operations[j].type \in {"DeleteFile", "DeleteDir"}
                    /\ \A j \in DOMAIN Manifest.operations :
                          Manifest.operations[j].type \in {"CreateDir", "AddFile", "ModifyFile"}
                              => ~below(Manifest.operations[j].path)

\* C26 witness: a manifest that deletes a directory with an entry in it and
\* adds or modifies a file beside it.
C26_Witness ==
    /\ patch_kind = "created"
    /\ \E i \in DOMAIN Manifest.operations :
          /\ Manifest.operations[i].type = "DeleteDir"
          /\ \E p \in Universe :
                /\ old_dir[p].kind # "Absent"
                /\ IsPrefix(Manifest.operations[i].path \o <<Ch.slash>>, p)
    /\ \E j \in DOMAIN Manifest.operations :
          Manifest.operations[j].type \in {"AddFile", "ModifyFile"}

\* C27: a path that is in both trees as a file in one and a directory in the
\* other is the target of no operation of the manifest of create_patch: it
\* is not created, added, modified or deleted.
C27_KindChangeEmitsNothing ==
    patch_kind = "created" =>
        \A p \in Universe :
            KindChanged(p) =>
                \A k \in DOMAIN Manifest.operations : Manifest.operations[k].path # p

\* C27 witness: a manifest with operations for trees in which a path turns
\* from a file into a directory.
C27_Witness ==
    /\ patch_kind = "created"
    /\ \E p \in Universe :
          KindChanged(p) /\ old_dir[p].kind = "File" /\ new_dir[p].kind = "Dir"
    /\ Manifest.operations # <<>>

\* C28: when a ModifyFile has a Copy chunk with offset + length greater than
\* the size of the file that is in the target, the file is never rewritten
\* (it keeps its bytes in every state) and apply_patch fails by returning an
\* error to its caller: the operation gets no further than the replay of its
\* chunks, which ends in a panic that is returned as an error, and the
\* process is not ended under the caller.
C28_CopyOutOfRangeFails ==
    \A k \in DOMAIN plan.modify_files :
        LET loc == Join(TargetLoc, plan.modify_files[k].path)
            chunks == plan.modify_files[k].diff_chunks
        IN  (/\ pre_fs[loc].kind = "File"
             /\ \E c \in DOMAIN chunks :
                   /\ chunks[c].type = "Copy"
                   /\ chunks[c].offset + chunks[c].length > Len(pre_fs[loc].data)) =>
                /\ fs[loc] = pre_fs[loc]
                /\ st.modify[k] \in {"todo", "mapped", "panic", "skipped"}
                /\ pc = "returned" => ~apply_result.ok

\* C29: the map of a file that a ModifyFile reads is released before the
\* file is written. While the map of a path is live (the operation has mapped
\* the file and has not finished the replay of its chunks), no step writes
\* that path: not the write of the same operation, and not the write of an
\* AddFile or of another ModifyFile that runs in parallel.
C29_MapReleasedBeforeWrite ==
    [][\A k \in DOMAIN st.modify :
          st.modify[k] = "mapped" =>
              LET path == plan.modify_files[k].path
                  loc == Join(TargetLoc, path)
              IN  /\ ~(fs'[loc] # fs[loc] /\ fs'[loc].kind = "File")
                  /\ \A j \in DOMAIN st.modify :
                        (st.modify[j] = "verified" /\ st'.modify[j] # "verified") =>
                            plan.modify_files[j].path # path
                  /\ \A j \in DOMAIN st.add :
                        (st.add[j] = "parent" /\ st'.add[j] # "parent") =>
                            plan.add_files[j].path # path]_vars

\* C29 witness: two files are modified in parallel; one has been written
\* while the map of the other is live.
C29_Witness ==
    \E j, k \in DOMAIN st.modify :
        /\ st.modify[j] = "ok"
        /\ st.modify[k] = "mapped"
        /\ fs[Join(TargetLoc, plan.modify_files[j].path)]
              # pre_fs[Join(TargetLoc, plan.modify_files[j].path)]
        /\ mod_buf[k] = fs[Join(TargetLoc, plan.modify_files[k].path)].data

\* The paths of dirs_in are the directories of two whole trees: the walk
\* that lists a tree lists, with a path, every directory above it.
WholeTrees ==
    \A p \in DOMAIN dirs_in :
        PathParent(p).path # <<>> => PathParent(p).path \in DOMAIN dirs_in

\* C30: for the DeleteDir operations of a manifest of create_patch, the root
\* deleted directories that apply_patch computes are pairwise non-nested (no
\* root lies below another), every DeleteDir path is a root or lies below
\* one, and no path lies in the subtrees of two roots: the recursive removals
\* act on disjoint subtrees.
C30_RootsCoverDisjointly ==
    (dirs_pc = "done" /\ WholeTrees) =>
        LET delete_dirs == OfType(dirs_ops, "DeleteDir")
            roots == root_deleted_dirs(delete_dirs)
            Within(r, p) == p = r \/ IsPrefix(r \o <<Ch.slash>>, p)
        IN  /\ \A i, j \in DOMAIN roots : i # j => ~Within(roots[i], roots[j])
            /\ \A p \in Paths(delete_dirs) : \E i \in DOMAIN roots : Within(roots[i], p)
            /\ \A i, j \in DOMAIN roots :
                  i # j => \A p \in DirPaths : ~(Within(roots[i], p) /\ Within(roots[j], p))

\* C30 witness: the manifest deletes directories of two levels; there are
\* two roots, and a deleted directory that is not a root lies below one.
C30_Witness ==
    /\ dirs_pc = "done" /\ WholeTrees
    /\ LET delete_dirs == OfType(dirs_ops, "DeleteDir")
           roots == root_deleted_dirs(delete_dirs)
       IN  /\ Len(roots) >= 2
           /\ \E p \in Paths(delete_dirs) : \A i \in DOMAIN roots : roots[i] # p

\* C31: the match loop of compute_diff terminates for all inputs. Every
\* iteration strictly increases pos and keeps it within new: by 1 when the
\* window matched no block, and by the length of the Copy it emitted, which
\* is at least 1, when it matched; and compute_diff eventually returns.
C31_MatchLoopTerminates ==
    /\ [][(diff_pc = "loop" /\ diff_pc' = "loop") =>
            LET before == match_state
                after == match_state'
                last == after.chunks[Len(after.chunks)]
                matched == /\ Len(after.chunks) > Len(before.chunks)
                           /\ last.type = "Copy"
            IN  /\ after.pos > before.pos
                /\ after.pos <= Len(diff_new)
                /\ IF matched
                   THEN last.length >= 1 /\ after.pos = before.pos + last.length
                   ELSE after.pos = before.pos + 1]_vars
    /\ <>(diff_pc = "done")

\* C31 witness: the loop has ended after iterations of both kinds, a match
\* followed by a window that matched nothing.
C31_Witness ==
    /\ diff_pc = "done"
    /\ ~WindowFits(diff_new, match_state)
    /\ match_state.insert_buf # <<>>
    /\ \E c \in DOMAIN match_state.chunks : match_state.chunks[c].type = "Copy"


\* C32: at the start of every iteration of the match loop in which a full
\* window fits, the digest of the rolling hash is the digest of a fresh init
\* over new[pos .. pos + BLOCK_SIZE], after any mix of matches and non-matches.
C32_RollingDigestIsFreshInit ==
    (diff_pc = "loop" /\ WindowFits(diff_new, match_state)) =>
        digest(match_state.rolling) =
            digest(init(RollingHash_new,
                        Slice(diff_new, match_state.pos, match_state.pos + BLOCK_SIZE)))

\* C32 witness: an iteration starts with a full window after a match (a Copy
\* was emitted and the hash re-initialised) followed by a non-match (a byte
\* was buffered and the hash rotated).
C32_Witness ==
    /\ diff_pc = "loop"
    /\ WindowFits(diff_new, match_state)
    /\ match_state.chunks # <<>>
    /\ match_state.chunks[Len(match_state.chunks)].type = "Copy"
    /\ match_state.insert_buf # <<>>


\* C33: no Insert chunk returned by compute_diff carries empty data, for
\* every old and new, an empty new with a non-empty old included.
C33_NoEmptyInsert ==
    diff_pc = "done" =>
        \A c \in DOMAIN diff_result :
            diff_result[c].type = "Insert" => diff_result[c].data # <<>>


\* x is a value of an unsigned 32-bit integer: 0 <= x < 2^32.
FitsU32(x) == x >= 0 /\ x \div 65536 < 65536

\* C34: after init on a window of at most 4096 bytes and after any number of
\* rotate calls, a and b are below 65521, no unsigned 32-bit intermediate of
\* a further rotate underflows or overflows, and digest has b as its high
\* 16 bits and a as its low 16 bits.
C34_SumsStayInRange ==
    hash_pc = "ready" =>
        /\ hash_rolling.window_size <= FULL_BLOCK_SIZE
        /\ hash_rolling.a < MOD_ADLER
        /\ hash_rolling.b < MOD_ADLER
        /\ \A old_byte, new_byte \in {0, 1, 255} :
              LET steps == rotate_intermediates(hash_rolling, old_byte, new_byte)
                  next == rotate(hash_rolling, old_byte, new_byte)
              IN  /\ \A k \in DOMAIN steps : FitsU32(steps[k])
                  /\ next.a = steps[3] % MOD_ADLER
                  /\ next.b = steps[8] % MOD_ADLER
        /\ digest(hash_rolling) = [lo |-> hash_rolling.a, hi |-> hash_rolling.b]

\* C34 witness: a window of 4096 bytes whose sums passed the modulus in init,
\* after two rotate calls.
C34_Witness ==
    /\ hash_pc = "ready"
    /\ hash_window = FULL_BLOCK_SIZE
    /\ hash_pos >= 2
    /\ InitAccumulate(Slice(hash_data, 0, hash_window), 1, 0)[2] >= MOD_ADLER

=============================================================================
